---- MODULE Spec2Model ----
(***************************************************************************)
(* The pack build pipeline of greentic-dev (src/src/pack_build.rs):        *)
(* run -> build_once [-> verify_determinism -> build_once].                *)
(*                                                                         *)
(* One action per step of build_once / run / verify_determinism.  The      *)
(* component resolver (crate::component_resolver), the flow validator      *)
(* (greentic_flow) and the archive assembler (greentic_pack) are not part  *)
(* of the sources at hand and are modelled from their contracts.           *)
(* PackSigning is passed through unchanged to the assembler and is left    *)
(* out; I/O errors of the diagnostics directory are not modelled.          *)
(***************************************************************************)
EXTENDS Integers, Sequences, FiniteSets, TLC

VARIABLES
    flow,            \* input: the flow source, a sequence of node declarations
    flow_status,     \* input: "ok" | "unparsable" | "invalid" (what reading/validating it gives)
    flow_path,       \* input: the flow path given to run
    output_path,     \* input: the output path given to run
    meta,            \* input: what the descriptor file at meta_path holds
    strict_env,      \* input: LOCAL_CHECK_STRICT, <<>> when unset, <<v>> when set to v
    doc_lacks_last,  \* input: whether the YAML document lacks the entry of the last node
    meta_path,       \* input: the --meta path given to run, <<>> when none
    component_dir,   \* input: the component directory given to run, <<>> when none
    hostname,        \* input: the HOSTNAME environment variable, <<>> when unset
    git,             \* input: what `git rev-parse HEAD` and the remote lookup give here
    pc,              \* position in run
    build,           \* 1: primary build_once, 2: the build_once of verify_determinism
    idx,             \* position of the `for node in &bundle.nodes` loop
    flow_doc_json,   \* the mutable JSON flow document of the current build_once
    resolved_nodes,  \* Vec<ResolvedNode> of the current build_once
    schema_errors,   \* Vec<NodeSchemaError> of the current build_once
    pack_meta,       \* PackMeta of the current build_once (NoMeta before load_pack_meta)
    builder,         \* what the PackBuilder holds (NoBuilder before it is made)
    out_file,        \* the file at output_path (NoFile or an archive)
    temp_pack,       \* the file at <tempdir>/deterministic.gtpack
    out_parent,      \* whether build_once created the parent directory of output_path
    diag,            \* .greentic/resolved_config: node id -> snapshot
    now,             \* the wall clock
    handed,          \* the inputs handed to PackBuilder::build, one entry per call
    manifest_reads,  \* node ids for which default_operation parsed the manifest
    log,             \* the stage events of the current build_once, in order
    result,          \* "running", or what run returned
    build_calls,     \* how many times run (and verify_determinism) entered build_once
    resolver_calls,  \* the resolve_component invocations of the run, in order
    writers,         \* overlapping write_resolved_configs calls in one working directory
    config_load,     \* config.rs: the environment, the files and the result of load_with_meta
    provider_cmd,    \* pack_cli.rs: the manifest on disk, the arguments and the result
    path_check       \* path_safety.rs: the arguments and the result of normalize_under_root

vars == <<flow, flow_status, flow_path, output_path, meta, strict_env, doc_lacks_last,
          meta_path, component_dir, hostname, git, pc, build,
          idx, flow_doc_json, resolved_nodes, schema_errors, pack_meta, builder,
          out_file, temp_pack, out_parent, diag, now, handed, manifest_reads,
          log, result, build_calls, resolver_calls, writers, config_load, provider_cmd,
          path_check>>

inputs == <<flow, flow_status, flow_path, output_path, meta, strict_env, doc_lacks_last,
            meta_path, component_dir, hostname, git>>

\* the state of the commands outside the pack build
cliVars == <<config_load, provider_cmd, path_check>>

(***************************************************************************)
(* Bounds.                                                                 *)
(***************************************************************************)
MaxNodes == 2
MaxClock == 1
MaxApplications == 2

(***************************************************************************)
(* JSON values: serde_json::Value restricted to strings, one non-string    *)
(* scalar and objects of scalars.                                          *)
(***************************************************************************)
JStr(s) == [kind |-> "string", s |-> s]
JNum == [kind |-> "number", s |-> "7"]
JNull == [kind |-> "null", s |-> ""]

\* Option<&str> of Value::as_str
as_str(v) == IF v.kind = "string" THEN <<v.s>> ELSE <<>>

\* the strings of the model that consist of whitespace only: s.trim().is_empty()
Whitespace == {"", " ", "  "}
trim_is_empty(s) == s \in Whitespace

\* a configuration payload: a JSON object (key -> scalar) or a non-object value
Obj(f) == [isObj |-> TRUE, o |-> f]
EmptyMap == [k \in {} |-> JNull]
NonObj == [isObj |-> FALSE, o |-> EmptyMap]

\* an insertion that replaces the value already under k
insert_replacing(m, k, v) == [x \in DOMAIN m \cup {k} |-> IF x = k THEN v ELSE m[x]]

\* serde_json::Map entry(k).or_insert(v): insert only when k is absent
or_insert(m, k, v) ==
    IF k \in DOMAIN m THEN m
    ELSE [x \in DOMAIN m \cup {k} |-> IF x = k THEN v ELSE m[x]]

Put(m, k, v) == [x \in DOMAIN m \cup {k} |-> IF x = k THEN v ELSE m[x]]

Ok(v) == [ok |-> TRUE, val |-> v]
Err(e) == [ok |-> FALSE, err |-> e]

Error(kind, node, entries) == [kind |-> kind, node |-> node, entries |-> entries]
NoError == Error("", "", <<>>)

None == <<>>
Some(v) == <<v>>
unwrap_or(opt, d) == IF opt = <<>> THEN d ELSE opt[1]

(***************************************************************************)
(* Paths and normalize_under_root (src/src/path_safety.rs).  A path is an  *)
(* absolute flag and its segments; the workspace root is /ws.  Symbolic    *)
(* links are not modelled: canonicalize resolves `..` and requires the     *)
(* path to exist.                                                          *)
(***************************************************************************)
Path(abs, segs) == [abs |-> abs, segs |-> segs]
workspace_root == <<"ws">>

RECURSIVE ResolveDots(_, _)
ResolveDots(segs, acc) ==
    IF segs = <<>> THEN acc
    ELSE IF Head(segs) = ".."
         THEN ResolveDots(Tail(segs),
                          IF acc = <<>> THEN acc ELSE SubSeq(acc, 1, Len(acc) - 1))
         ELSE ResolveDots(Tail(segs), Append(acc, Head(segs)))

canonicalize(segs) == ResolveDots(segs, <<>>)

starts_with(p, root) ==
    Len(p) >= Len(root) /\ SubSeq(p, 1, Len(root)) = root

\* `exists`: whether the file the candidate names exists (canonicalize fails otherwise)
normalize_under_root(root, candidate, exists) ==
    LET resolved == IF candidate.abs THEN candidate.segs ELSE root \o candidate.segs
        canon == canonicalize(resolved)
    IN  IF ~exists THEN Err(Error("CanonicalizeFailed", "", resolved))
        ELSE IF ~starts_with(canon, root) THEN Err(Error("PathEscapesRoot", "", canon))
        ELSE Ok(canon)

\* the files and directories that do not exist, by their canonical paths; every other
\* path of the model names something that exists
MissingFiles ==
    { workspace_root \o <<"flows", "missing.ygtc">>,
      workspace_root \o <<"missing.toml">>,
      workspace_root \o <<"missing">> }

file_exists(candidate) ==
    canonicalize(IF candidate.abs THEN candidate.segs ELSE workspace_root \o candidate.segs)
        \notin MissingFiles

FlowPaths == { Path(FALSE, <<"flows", "main.ygtc">>),
               Path(TRUE, <<"tmp", "main.ygtc">>),
               Path(FALSE, <<"flows", "missing.ygtc">>) }

MetaFile == Path(FALSE, <<"pack.toml">>)
MetaPaths == { MetaFile,
               Path(TRUE, <<"tmp", "pack.toml">>),
               Path(FALSE, <<"missing.toml">>) }

ComponentDirs == { None,
                   Some(Path(FALSE, <<"components">>)),
                   Some(Path(TRUE, <<"tmp">>)),
                   Some(Path(FALSE, <<"missing">>)) }

\* run, lines 56-62: the flow path, then the metadata path and the component directory
\* when given, each normalized under the workspace root; the first failure is returned
normalize_run_paths(flow_p, meta_p, dir) ==
    LET safe_flow == normalize_under_root(workspace_root, flow_p, file_exists(flow_p)) IN
    IF ~safe_flow.ok THEN safe_flow
    ELSE LET safe_meta == IF meta_p = None THEN Ok(None)
                          ELSE normalize_under_root(workspace_root, meta_p[1],
                                                    file_exists(meta_p[1]))
         IN
    IF ~safe_meta.ok THEN safe_meta
    ELSE LET safe_component_dir == IF dir = None THEN Ok(None)
                                   ELSE normalize_under_root(workspace_root, dir[1],
                                                             file_exists(dir[1]))
         IN
    IF ~safe_component_dir.ok THEN safe_component_dir
    ELSE Ok([safe_flow |-> safe_flow.val,
             safe_meta |-> IF meta_p = None THEN None ELSE Some(safe_meta.val),
             safe_component_dir |-> IF dir = None THEN None ELSE Some(safe_component_dir.val)])

OutputPaths == { Path(FALSE, <<"dist", "out.gtpack">>),
                 Path(TRUE, <<"ws", "dist", "out.gtpack">>),
                 Path(TRUE, <<"tmp", "out.gtpack">>) }

(***************************************************************************)
(* The component search path and the Component Resolver (spec 4.1).        *)
(* A version n stands for n.0.0.  `operations` holds, per declared         *)
(* operation, the JSON value under its `name` (JNull when it has none).    *)
(* `required` is the set of keys the component's JSON Schema requires.     *)
(* wasm_hash is split into its scheme prefix (if any) and its hex digest.  *)
(***************************************************************************)
Manifest(hasOps, items) == [parses |-> TRUE, hasOps |-> hasOps, operations |-> items]

Component(name, version, manifest, required, hash) ==
    [name |-> name, version |-> version, manifest_json |-> manifest,
     required |-> required, wasm_hash |-> hash]

SearchPath ==
    { Component("echo", 1, Manifest(TRUE, <<JStr("echo"), JStr("reverse")>>),
                <<"text">>, <<"blake3:", "e1">>),
      Component("echo", 2, Manifest(TRUE, <<JStr("echo"), JStr("reverse")>>),
                <<"text">>, <<"e2">>),
      Component("qa", 1, Manifest(TRUE, <<JStr("ask")>>),
                <<"question", "lang">>, <<"blake3:", "a1">>),
      Component("upper", 1, Manifest(TRUE, <<>>), <<>>, <<"blake3:", "b1">>),
      \* a manifest without an `operations` array, and one whose first operation has no name
      Component("bare", 1, Manifest(FALSE, <<>>), <<>>, <<"blake3:", "f1">>),
      Component("anon", 1, Manifest(TRUE, <<JNull, JStr("second")>>), <<>>, <<"blake3:", "f2">>),
      \* a build whose content hash carries another scheme than blake3
      Component("legacy", 1, Manifest(TRUE, <<JStr("run")>>), <<>>, <<"sha256:", "d1">>),
      \* a build on the search path whose manifest does not parse
      Component("broken", 1, [parses |-> FALSE, hasOps |-> FALSE, operations |-> <<>>],
                <<>>, <<"blake3:", "c1">>) }

VersionReqs == {"*", "=1", "=2"}

\* semver::VersionReq::matches on the requirements of the model
matches(req, version) ==
    CASE req = "*" -> TRUE
      [] req = "=1" -> version = 1
      [] req = "=2" -> version = 2
      [] OTHER -> FALSE

\* ComponentResolver::resolve_component: the highest version satisfying the requirement
resolve_component(name, req) ==
    LET cands == { c \in SearchPath : c.name = name /\ matches(req, c.version) }
    IN  IF cands = {} THEN Err(Error("ComponentNotFound", name, <<>>))
        ELSE LET best == CHOOSE c \in cands : \A d \in cands : d.version <= c.version
             IN  IF ~best.manifest_json.parses
                 THEN Err(Error("ManifestInvalid", name, <<>>))
                 ELSE Ok(best)

(***************************************************************************)
(* Flow sources.  A node declaration is what the YAML holds for one node:  *)
(* its id, the component key, the pinned version requirement and the       *)
(* payload under the component key.  Node ids are the keys of a YAML map,  *)
(* so they are distinct; they are given by position.                       *)
(***************************************************************************)
NodeIds == <<"n1", "n2", "n3", "n4">>

Template(comp, req, cfg) == [comp |-> comp, req |-> req, cfg |-> cfg]

Templates ==
    { Template("echo", "*", Obj("text" :> JStr("hi"))),
      Template("echo", "=1", Obj(("operation" :> JStr("custom")) @@ ("text" :> JStr("hi")))),
      Template("echo", "*", Obj(("op" :> JStr("custom")) @@ ("text" :> JStr("hi")))),
      Template("qa", "*", Obj("op" :> JStr(" "))),
      Template("upper", "*", Obj("text" :> JStr("hi"))),
      Template("ghost", "*", Obj(EmptyMap)),
      Template("component.exec", "*",
               Obj(("component" :> JStr("echo@=1")) @@ ("text" :> JStr("hi")))),
      Template("component.exec", "*", Obj("text" :> JStr("hi"))),
      Template("flow.call", "*", Obj(EmptyMap)) }

\* the node declarations of the node-loop specification: every shape of ordinary,
\* inline-execution and built-in node the loop of build_once distinguishes
NodeTemplates ==
    { Template("echo", "*", Obj("text" :> JStr("hi"))),
      Template("echo", "=1", Obj(("operation" :> JStr("custom")) @@ ("text" :> JStr("hi")))),
      Template("qa", "*", Obj("op" :> JStr(" "))),
      Template("upper", "*", Obj("text" :> JStr("hi"))),
      Template("ghost", "*", Obj(EmptyMap)),
      Template("broken", "*", Obj(EmptyMap)),
      Template("legacy", "*", Obj(EmptyMap)),
      Template("component.exec", "*",
               Obj(("component" :> JStr("echo@=1")) @@ ("text" :> JStr("hi")))),
      Template("component.exec", "*",
               Obj(("component" :> JStr(" echo @ =1 ")) @@ ("text" :> JStr("hi")))),
      Template("component.exec", "*",
               Obj(("component" :> JStr("echo")) @@ ("text" :> JStr("hi")))),
      Template("component.exec", "*",
               Obj(("component" :> JStr("echo@latest")) @@ ("text" :> JStr("hi")))),
      Template("component.exec", "*", Obj("component" :> JStr("ghost"))),
      Template("component.exec", "*", Obj("component" :> JStr("qa"))),
      Template("component.exec", "*", Obj("text" :> JStr("hi"))),
      Template("component.exec", "*", Obj(("component" :> JNum) @@ ("text" :> JStr("hi")))),
      Template("flow.call", "*", Obj(EmptyMap)),
      Template("session.wait", "*", Obj(EmptyMap)),
      Template("emit.log", "*", Obj(EmptyMap)) }

Decl(id, t) == [node_id |-> id, comp |-> t.comp, req |-> t.req, cfg |-> t.cfg]

\* the payloads ensure_node_operations distinguishes: each of `operation` and `op`
\* absent (<<>>), blank, not a string, or set
OperationValues == { <<>>, <<JStr("")>>, <<JNum>>, <<JStr("custom")>> }
OpValues == { <<>>, <<JStr(" ")>>, <<JStr("legacy")>> }

Payload(operation, op) ==
    Obj((IF operation = <<>> THEN EmptyMap ELSE "operation" :> operation[1])
        @@ (IF op = <<>> THEN EmptyMap ELSE "op" :> op[1])
        @@ ("text" :> JStr("hi")))

NormalizeTemplates ==
    { Template(c, "*", Payload(operation, op)) :
        c \in {"echo", "upper"}, operation \in OperationValues, op \in OpValues }
    \cup
    { Template(c, "*", Payload(<<>>, op)) : c \in {"bare", "anon"}, op \in {<<>>, <<JStr(" ")>>} }

NormalizeFlows ==
    UNION { { [i \in 1..n |-> Decl(NodeIds[i], t[i])] : t \in [1..n -> NormalizeTemplates] }
            : n \in 1..MaxNodes }

NodeFlows ==
    UNION { { [i \in 1..n |-> Decl(NodeIds[i], t[i])] : t \in [1..n -> NodeTemplates] }
            : n \in 1..MaxNodes }

Flows ==
    UNION { { [i \in 1..n |-> Decl(NodeIds[i], t[i])] : t \in [1..n -> Templates] }
            : n \in 1..MaxNodes }

\* serde_yaml_bw::from_str(&flow_source): the JSON document, nodes: id -> {component key: payload}
ParseFlowDoc(src) ==
    [hasNodes |-> TRUE,
     nodes |-> [id \in { src[i].node_id : i \in 1..Len(src) } |->
                  LET d == CHOOSE d \in { src[i] : i \in 1..Len(src) } : d.node_id = id
                  IN  d.comp :> d.cfg]]

\* the JSON document of a source whose YAML may lack the entry of the last node the
\* bundle has; the same source gives the same document every time it is parsed
parse_flow_source(src, lacks_last) ==
    ParseFlowDoc(IF lacks_last THEN SubSeq(src, 1, Len(src) - 1) ELSE src)

\* load_and_validate_bundle: the ordered NodeRef list of the flow
NodeRef(d) == [node_id |-> d.node_id,
               component |-> [name |-> d.comp, version_req |-> d.req]]

load_and_validate_bundle(src) ==
    [id |-> "main", nodes |-> [i \in 1..Len(src) |-> NodeRef(src[i])]]

(***************************************************************************)
(* Node resolution.                                                        *)
(***************************************************************************)
ResolvedNode(id, component, pointer, config) ==
    [node_id |-> id, component |-> component, pointer |-> pointer, config |-> config]

is_builtin_component(name) ==
    \/ name = "component.exec"
    \/ name = "flow.call"
    \/ name = "session.wait"
    \/ name \in {"emit", "emit.log", "emit.response"}   \* name.starts_with("emit")

\* the characters of a component reference, grouped into tokens: runs without
\* '@' or blanks, "@", and " "
RefTokens(raw) ==
    CASE raw = "echo" -> <<"echo">>
      [] raw = "echo@=1" -> <<"echo", "@", "=1">>
      [] raw = " echo @ =1 " -> <<" ", "echo", " ", "@", " ", "=1", " ">>
      [] raw = "echo@latest" -> <<"echo", "@", "latest">>
      [] raw = "ghost" -> <<"ghost">>
      [] raw = "qa" -> <<"qa">>
      [] OTHER -> <<raw>>

RECURSIVE TrimLeft(_)
TrimLeft(ts) == IF ts # <<>> /\ Head(ts) = " " THEN TrimLeft(Tail(ts)) ELSE ts

RECURSIVE TrimRight(_)
TrimRight(ts) ==
    IF ts # <<>> /\ ts[Len(ts)] = " " THEN TrimRight(SubSeq(ts, 1, Len(ts) - 1)) ELSE ts

trim(ts) == TrimRight(TrimLeft(ts))

\* str::split_once('@'): <<before, after>> at the first "@", <<>> when there is none
split_once(ts) ==
    IF \E i \in 1..Len(ts) : ts[i] = "@"
    THEN LET i == CHOOSE i \in 1..Len(ts) : ts[i] = "@" /\ \A j \in 1..(i - 1) : ts[j] # "@"
         IN  <<SubSeq(ts, 1, i - 1), SubSeq(ts, i + 1, Len(ts))>>
    ELSE <<>>

parse_component_ref(raw) ==
    LET ts == RefTokens(raw)
        parts == split_once(ts)
    IN  IF parts # <<>>
        THEN LET ver == trim(parts[2])
                 name == trim(parts[1])
             IN  IF Len(ver) = 1 /\ ver[1] \in VersionReqs
                 THEN Ok([name |-> name, version_req |-> ver[1]])
                 ELSE Err(Error("InvalidVersionReq", "", <<>>))
        ELSE Ok([name |-> trim(ts), version_req |-> "*"])   \* VersionReq::default()

\* a trimmed name of one token is that token; anything else names no component
NameOf(ts) == IF Len(ts) = 1 THEN ts[1] ELSE ""

\* a resolution that hands whatever the payload holds to the resolver
resolve_exec_through_resolver(node, doc) ==
    LET present == node.node_id \in DOMAIN doc.nodes
        payload == IF present THEN doc.nodes[node.node_id]["component.exec"] ELSE NonObj
        raw == IF "component" \in DOMAIN payload.o /\ as_str(payload.o["component"]) # <<>>
               THEN as_str(payload.o["component"])[1] ELSE ""
        ref == parse_component_ref(raw)
    IN  IF ~ref.ok THEN ref
        ELSE LET rc == resolve_component(NameOf(ref.val.name), ref.val.version_req) IN
             IF ~rc.ok THEN rc
             ELSE Ok(ResolvedNode(node.node_id, rc.val, <<"nodes", node.node_id>>, payload))

resolve_component_exec_node(node, doc) ==
    IF ~doc.hasNodes THEN Err(Error("MissingNodesMap", "", <<>>))
    ELSE IF node.node_id \notin DOMAIN doc.nodes
    THEN Err(Error("MissingFlowNode", node.node_id, <<>>))
    ELSE LET node_value == doc.nodes[node.node_id] IN
    IF "component.exec" \notin DOMAIN node_value
    THEN Err(Error("MissingExecPayloadObject", node.node_id, <<>>))
    ELSE LET payload == node_value["component.exec"] IN
    IF ~("component" \in DOMAIN payload.o /\ as_str(payload.o["component"]) # <<>>)
    THEN Err(Error("MissingExecPayload", node.node_id, <<>>))
    ELSE LET ref == parse_component_ref(as_str(payload.o["component"])[1]) IN
    IF ~ref.ok THEN ref
    ELSE LET rc == resolve_component(NameOf(ref.val.name), ref.val.version_req) IN
    IF ~rc.ok THEN rc
    ELSE Ok(ResolvedNode(node.node_id, rc.val, <<"nodes", node.node_id>>, payload))

\* ComponentResolver::resolve_node: the payload under the node's component key,
\* the pinned name and requirement resolved through resolve_component
resolve_node(node, doc) ==
    IF node.node_id \notin DOMAIN doc.nodes
    THEN Err(Error("MissingFlowNode", node.node_id, <<>>))
    ELSE LET entry == doc.nodes[node.node_id]
             rc == resolve_component(node.component.name, node.component.version_req)
         IN  IF ~rc.ok THEN rc
             ELSE Ok(ResolvedNode(node.node_id, rc.val,
                                  <<"nodes", node.node_id, node.component.name>>,
                                  IF node.component.name \in DOMAIN entry
                                  THEN entry[node.component.name] ELSE NonObj))

\* the resolve_component invocations that resolving one node makes
resolver_invocations(b, node, doc) ==
    LET call(name, req) == <<[build |-> b, node_id |-> node.node_id,
                              name |-> name, version_req |-> req]>>
    IN  IF node.component.name = "component.exec"
        THEN IF /\ doc.hasNodes
                /\ node.node_id \in DOMAIN doc.nodes
                /\ "component.exec" \in DOMAIN doc.nodes[node.node_id]
             THEN LET payload == doc.nodes[node.node_id]["component.exec"] IN
                  IF "component" \in DOMAIN payload.o /\ as_str(payload.o["component"]) # <<>>
                  THEN LET ref == parse_component_ref(as_str(payload.o["component"])[1]) IN
                       IF ref.ok THEN call(NameOf(ref.val.name), ref.val.version_req)
                       ELSE <<>>
                  ELSE <<>>
             ELSE <<>>
        ELSE IF node.node_id \in DOMAIN doc.nodes
             THEN call(node.component.name, node.component.version_req)
             ELSE <<>>

(***************************************************************************)
(* Schema validation (spec 4.4): one NodeSchemaError per violation, in the *)
(* order of the schema's required keys.                                    *)
(***************************************************************************)
NodeSchemaError(node, key) ==
    [node_id |-> node.node_id, component |-> node.component.name,
     pointer |-> node.pointer, message |-> <<"missing required property", key>>]

validate_node(node) ==
    LET req == node.component.required
        missing(k) == ~(node.config.isObj /\ k \in DOMAIN node.config.o)
        idxs == { i \in 1..Len(req) : missing(req[i]) }
        RECURSIVE Build(_)
        Build(i) == IF i > Len(req) THEN <<>>
                    ELSE (IF i \in idxs THEN <<NodeSchemaError(node, req[i])>> ELSE <<>>)
                         \o Build(i + 1)
    IN  Build(1)

(***************************************************************************)
(* Config normalization: ensure_node_operations and default_operation.     *)
(***************************************************************************)
OpPresent(cfg_map, key) ==
    /\ key \in DOMAIN cfg_map
    /\ as_str(cfg_map[key]) # <<>>
    /\ ~trim_is_empty(as_str(cfg_map[key])[1])

\* a check that forgets the legacy key
has_operation_only(cfg_map) == OpPresent(cfg_map, "operation")

has_op(cfg_map) == OpPresent(cfg_map, "operation") \/ OpPresent(cfg_map, "op")

\* a lookup that falls back to the name of the component
default_operation_or_name(component) ==
    LET manifest == component.manifest_json IN
    IF manifest.parses /\ manifest.hasOps /\ Len(manifest.operations) >= 1
       /\ as_str(manifest.operations[1]) # <<>>
    THEN Ok(as_str(manifest.operations[1]))
    ELSE Ok(<<component.name>>)

\* Result<Option<String>>: Ok(<<>>) is None, Ok(<<name>>) is Some(name)
default_operation(component) ==
    LET manifest == component.manifest_json IN
    IF ~manifest.parses THEN Err(Error("InvalidManifestJson", component.name, <<>>))
    ELSE IF manifest.hasOps /\ Len(manifest.operations) >= 1
            /\ as_str(manifest.operations[1]) # <<>>
         THEN Ok(as_str(manifest.operations[1]))
         ELSE Ok(<<>>)

\* the key under which ensure_node_operations looks the node's payload up
ConfigKey(node) == node.component.name

Backfill(cfg_map, op) ==
    or_insert(or_insert(cfg_map, "operation", JStr(op)), "op", JStr(op))

RECURSIVE EnsureLoop(_, _, _, _)
EnsureLoop(nodes_map, nodes, k, reads) ==
    IF k > Len(nodes) THEN [ok |-> TRUE, nodes |-> nodes_map, reads |-> reads]
    ELSE LET node == nodes[k] IN
    IF node.node_id \notin DOMAIN nodes_map THEN EnsureLoop(nodes_map, nodes, k + 1, reads)
    ELSE LET entry == nodes_map[node.node_id] IN
    IF ConfigKey(node) \notin DOMAIN entry THEN EnsureLoop(nodes_map, nodes, k + 1, reads)
    ELSE LET config == entry[ConfigKey(node)] IN
    IF ~config.isObj THEN EnsureLoop(nodes_map, nodes, k + 1, reads)
    ELSE IF has_op(config.o) THEN EnsureLoop(nodes_map, nodes, k + 1, reads)
    ELSE LET op == default_operation(node.component)
             read == reads \cup {node.node_id}
         IN  IF ~op.ok THEN [ok |-> FALSE, nodes |-> nodes_map, reads |-> read]
             ELSE IF op.val # <<>>
             THEN EnsureLoop(
                      [nodes_map EXCEPT ![node.node_id] =
                          [entry EXCEPT ![ConfigKey(node)] =
                              Obj(Backfill(config.o, op.val[1]))]],
                      nodes, k + 1, read)
             ELSE EnsureLoop(nodes_map, nodes, k + 1, read)

\* [ok, doc, reads]: the document after the call and the manifests it parsed
ensure_node_operations(doc, nodes) ==
    IF ~doc.hasNodes THEN [ok |-> TRUE, doc |-> doc, reads |-> {}]
    ELSE LET r == EnsureLoop(doc.nodes, nodes, 1, {})
         IN  [ok |-> r.ok, doc |-> [doc EXCEPT !.nodes = r.nodes], reads |-> r.reads]

(***************************************************************************)
(* Diagnostics, artifacts, metadata, provenance.                           *)
(***************************************************************************)
Snapshot(node) ==
    [node_id |-> node.node_id, component |-> node.component.name,
     version |-> node.component.version, config |-> node.config]

\* snapshots written under the name of the component instead of the node id
RECURSIVE write_configs_by_component(_, _)
write_configs_by_component(nodes, dir) ==
    IF nodes = <<>> THEN dir
    ELSE write_configs_by_component(Tail(nodes),
                                    Put(dir, Head(nodes).component.name, Snapshot(Head(nodes))))

RECURSIVE write_resolved_configs(_, _)
write_resolved_configs(nodes, dir) ==
    IF nodes = <<>> THEN dir
    ELSE write_resolved_configs(Tail(nodes),
                                Put(dir, Head(nodes).node_id, Snapshot(Head(nodes))))

\* wasm_hash.strip_prefix("blake3:").unwrap_or(&wasm_hash)
strip_prefix(hash) ==
    IF hash # <<>> /\ Head(hash) = "blake3:" THEN Tail(hash) ELSE hash

to_artifact(component) ==
    [name |-> component.name, version |-> component.version,
     schema_json |-> component.required, manifest_json |-> component.manifest_json,
     hash_blake3 |-> strip_prefix(component.wasm_hash)]

ArtifactKey(component) == <<component.name, "@", component.version>>

\* the HashMap after the loop: key -> artifact of the first node with that key
ArtifactMap(nodes) ==
    LET keys == { ArtifactKey(nodes[i].component) : i \in 1..Len(nodes) }
        first(k) == CHOOSE i \in 1..Len(nodes) :
                        /\ ArtifactKey(nodes[i].component) = k
                        /\ \A j \in 1..(i - 1) : ArtifactKey(nodes[j].component) # k
    IN  [k \in keys |-> to_artifact(nodes[first(k)].component)]

\* one artifact per node, pushed onto a Vec without a look at the key
collect_per_node(nodes) ==
    { [i \in DOMAIN nodes |-> to_artifact(nodes[i].component)] }

\* every sequence that lists each element of S once
Orderings(S) ==
    { s \in [1..Cardinality(S) -> S] : \A x \in S : \E i \in DOMAIN s : s[i] = x }

\* map.into_values().collect(): the values in the HashMap's iteration order, which
\* the default RandomState hasher leaves open; the set of the possible results
collect_component_artifacts(nodes) ==
    LET map == ArtifactMap(nodes)
    IN  { [i \in DOMAIN ks |-> map[ks[i]]] : ks \in Orderings(DOMAIN map) }

\* OffsetDateTime::now_utc().format(&Rfc3339) at clock value t
Rfc3339(t) == <<"rfc3339", t>>


Descriptor(pack_id, version, name, created) ==
    [pack_id |-> pack_id, version |-> version, name |-> name, created_at_utc |-> created,
     entry_flows |-> <<>>]

\* the descriptor file at meta_path: None when no path is given
Metas ==
    { None,
      Some(Descriptor(Some(<<"acme.pack">>), Some("1.2.3"), None, Some(<<"literal", 0>>))),
      Some(Descriptor(None, Some("one"), None, None)) }

ValidDescriptor ==
    Some(Descriptor(Some(<<"acme.pack">>), Some("1.2.3"), None, Some(<<"literal", 0>>)))

\* the version strings of the model that semver::Version parses
SemverOk == {"0.1.0", "1.2.3"}

\* a load that takes the version string as it is
load_pack_meta_unparsed(m, bundle, t) ==
    LET config == unwrap_or(m, Descriptor(<<>>, <<>>, <<>>, <<>>))
    IN  Ok([pack_id |-> unwrap_or(config.pack_id, <<"dev.local.", bundle.id>>),
            version |-> unwrap_or(config.version, "0.1.0"),
            name |-> unwrap_or(config.name, bundle.id),
            entry_flows |-> unwrap_or(config.entry_flows, <<bundle.id>>),
            created_at_utc |-> unwrap_or(config.created_at_utc, Rfc3339(t))])

\* load_pack_meta; t is what the clock reads when created_at_utc is defaulted
load_pack_meta(m, bundle, t) ==
    LET config == unwrap_or(m, Descriptor(None, None, None, None))
        version == unwrap_or(config.version, "0.1.0")
    IN  IF version \notin SemverOk THEN Err(Error("InvalidPackVersion", "", <<>>))
        ELSE Ok([pack_id |-> unwrap_or(config.pack_id, <<"dev.local.", bundle.id>>),
                 version |-> version,
                 name |-> unwrap_or(config.name, bundle.id),
                 entry_flows |-> unwrap_or(config.entry_flows, <<bundle.id>>),
                 created_at_utc |-> unwrap_or(config.created_at_utc, Rfc3339(t))])

\* env!("CARGO_PKG_VERSION")
PackageVersion == "0.1.0"

\* what the two git commands give in the working directory: no repository (or no git),
\* a repository with or without a commit at HEAD, with or without a remote named origin
NoGit == [git_rev |-> None, git_remote |-> None]
Gits == { [git_rev |-> rev, git_remote |-> remote] :
            rev \in { None, Some("77522f2") },
            remote \in { None, Some("https://example.invalid/pack.git") } }

\* Provenance: the clock, HOSTNAME and the two git commands are read at every call
build_provenance(t, host, g) ==
    [builder |-> "greentic-dev " \o PackageVersion,
     git_commit |-> g.git_rev,
     git_repo |-> g.git_remote,
     toolchain |-> None,
     built_at_utc |-> Rfc3339(t),
     host |-> host,
     notes |-> Some("Built via greentic-dev pack build")]

to_pack_flow_bundle(bundle, doc, src) ==
    [id |-> bundle.id, yaml |-> src, json |-> doc, nodes |-> bundle.nodes]

\* a report that stops at the first error
report_first_schema_error(errors) ==
    Error("SchemaValidationFailed", "",
          <<<<errors[1].node_id, errors[1].component, errors[1].pointer,
              errors[1].message>>>>)

\* the message of the bail!: one "- node `id` (component) pointer: message" line per error
report_schema_errors(errors) ==
    Error("SchemaValidationFailed", "",
          [i \in DOMAIN errors |->
              <<errors[i].node_id, errors[i].component, errors[i].pointer,
                errors[i].message>>])

\* a flag that is on unless it is unset or set to a value that turns it off
strict_unless_disabled(env) == unwrap_or(env, "") \notin {"", "0", "false"}

strict_mode_enabled(env) == unwrap_or(env, "") \in {"1", "true", "TRUE"}

StrictValues == { None, Some("1"), Some("TRUE"), Some("0") }

(***************************************************************************)
(* The state machine.                                                      *)
(***************************************************************************)
Event(ev, node) == [ev |-> ev, node |-> node]

Running == [status |-> "running", error |-> NoError]
Succeeded == [status |-> "ok", error |-> NoError]
Failed(e) == [status |-> "failed", error |-> e]

buildVars == <<idx, flow_doc_json, resolved_nodes, schema_errors, pack_meta, builder>>
fsVars == <<out_file, out_parent, diag>>
callVars == <<build_calls, resolver_calls>>

\* the surroundings most runs of the model have: the descriptor, when there is one, in
\* pack.toml under the working directory, no component directory given, HOSTNAME set,
\* no git repository, and a YAML document with every node
UsualSurroundings ==
    /\ doc_lacks_last = FALSE
    /\ meta_path = (IF meta = None THEN None ELSE Some(MetaFile))
    /\ component_dir = None
    /\ hostname = Some("h1")
    /\ git = NoGit

\* the flows the runs in varied surroundings build
PlainFlows ==
    { <<Decl(NodeIds[1], Template("echo", "*", Obj("text" :> JStr("hi"))))>>,
      <<Decl(NodeIds[1], Template("echo", "*", Obj("text" :> JStr("hi")))),
        Decl(NodeIds[2], Template("upper", "*", Obj("text" :> JStr("hi"))))>> }

\* either any flow in the usual surroundings, or a plain flow with any paths, descriptor
\* location, component directory, HOSTNAME and git state
Init ==
    /\ \/ /\ flow \in Flows
          /\ flow_status \in {"ok", "unparsable", "invalid"}
          /\ flow_path = Path(FALSE, <<"flows", "main.ygtc">>)
          /\ output_path = Path(FALSE, <<"dist", "out.gtpack">>)
          /\ meta \in Metas
          /\ strict_env \in StrictValues
          /\ UsualSurroundings
       \/ /\ flow \in PlainFlows
          /\ flow_status = "ok"
          /\ flow_path \in FlowPaths
          /\ output_path \in OutputPaths
          /\ \/ meta = None /\ meta_path = None
             \/ meta = ValidDescriptor /\ meta_path \in { Some(q) : q \in MetaPaths }
          /\ strict_env \in { None, Some("TRUE") }
          /\ doc_lacks_last = FALSE
          /\ component_dir \in ComponentDirs
          /\ hostname \in { None, Some("h1"), Some("h2") }
          /\ git \in Gits
    /\ pc = "run"
    /\ build = 1
    /\ idx = 1
    /\ flow_doc_json = ParseFlowDoc(<<>>)
    /\ resolved_nodes = <<>>
    /\ schema_errors = <<>>
    /\ pack_meta = None
    /\ builder = None
    /\ out_file = None
    /\ temp_pack = None
    /\ out_parent = FALSE
    /\ diag = EmptyMap
    /\ now = 0
    /\ handed = <<>>
    /\ manifest_reads = {}
    /\ log = <<>>
    /\ result = Running
    /\ build_calls = 0
    /\ resolver_calls = <<>>
    /\ config_load = <<>>
    /\ provider_cmd = <<>>
    /\ path_check = <<>>
    /\ writers = <<>>

\* an error return out of build_once: `?` out of run in the primary build; in the
\* verification build verify_determinism adds its context and its tempdir is dropped
Abort(e) ==
    /\ pc' = "done"
    /\ result' = Failed(IF build = 2
                        THEN Error("DeterminismBuildFailed", e.kind, e.entries)
                        ELSE e)
    /\ temp_pack' = None

\* run, lines 52-62: the paths given to run are normalized under the workspace root
RunStart ==
    /\ pc = "run"
    /\ LET safe == normalize_run_paths(flow_path, meta_path, component_dir) IN
       IF safe.ok
       THEN /\ pc' = "load"
            /\ UNCHANGED <<result, temp_pack>>
       ELSE Abort(safe.err)
    /\ UNCHANGED <<inputs, cliVars, writers, callVars, build, buildVars, fsVars, now, handed, manifest_reads, log>>

\* build_once, lines 90-104: read, parse and validate the flow
LoadFlow ==
    /\ pc = "load"
    /\ IF flow_status = "ok"
       THEN /\ pc' = "resolve"
            /\ flow_doc_json' = parse_flow_source(flow, doc_lacks_last)
            /\ log' = <<Event("FlowValidated", "")>>
            /\ UNCHANGED <<result, temp_pack>>
       ELSE /\ Abort(Error(IF flow_status = "unparsable" THEN "FlowParseFailed"
                           ELSE "FlowValidationFailed", "", <<>>))
            /\ log' = <<>>
            /\ UNCHANGED flow_doc_json
    /\ idx' = 1
    /\ resolved_nodes' = <<>>
    /\ schema_errors' = <<>>
    /\ pack_meta' = None
    /\ builder' = None
    /\ manifest_reads' = {}
    /\ build_calls' = build_calls + 1
    /\ UNCHANGED <<inputs, cliVars, writers, resolver_calls, build, fsVars, now, handed>>

\* the loop body giving up at the first node that has schema errors
ResolveNodeFailFast ==
    /\ pc = "resolve"
    /\ idx <= Len(flow)
    /\ LET node == load_and_validate_bundle(flow).nodes[idx]
           exec == node.component.name = "component.exec"
           r == IF exec THEN resolve_component_exec_node(node, flow_doc_json)
                ELSE resolve_node(node, flow_doc_json)
       IN  IF is_builtin_component(node.component.name) /\ ~exec
           THEN /\ idx' = idx + 1
                /\ UNCHANGED <<pc, result, temp_pack, resolved_nodes, schema_errors, log,
                               resolver_calls>>
           ELSE /\ resolver_calls' = resolver_calls
                                     \o resolver_invocations(build, node, flow_doc_json)
                /\ IF r.ok
                   THEN /\ idx' = IF validate_node(r.val) # <<>> THEN Len(flow) + 1 ELSE idx + 1
                        /\ schema_errors' = schema_errors \o validate_node(r.val)
                        /\ resolved_nodes' = Append(resolved_nodes, r.val)
                        /\ log' = log \o <<Event("resolved", node.node_id),
                                           Event("checked", node.node_id)>>
                        /\ UNCHANGED <<pc, result, temp_pack>>
                   ELSE /\ Abort(r.err)
                        /\ UNCHANGED <<idx, resolved_nodes, schema_errors, log>>
    /\ UNCHANGED <<inputs, cliVars, writers, build_calls, build, flow_doc_json, pack_meta, builder,
                   fsVars, now, handed, manifest_reads>>

\* the loop body going on to the next node when a node does not resolve
ResolveNodeGoingOn ==
    /\ pc = "resolve"
    /\ idx <= Len(flow)
    /\ LET node == load_and_validate_bundle(flow).nodes[idx]
           exec == node.component.name = "component.exec"
           r == IF exec THEN resolve_component_exec_node(node, flow_doc_json)
                ELSE resolve_node(node, flow_doc_json)
       IN  /\ idx' = idx + 1
           /\ IF is_builtin_component(node.component.name) /\ ~exec
              THEN UNCHANGED <<resolved_nodes, schema_errors, log, resolver_calls>>
              ELSE /\ resolver_calls' = resolver_calls
                                        \o resolver_invocations(build, node, flow_doc_json)
                   /\ IF r.ok
                      THEN /\ schema_errors' = schema_errors \o validate_node(r.val)
                           /\ resolved_nodes' = Append(resolved_nodes, r.val)
                           /\ log' = log \o <<Event("resolved", node.node_id),
                                              Event("checked", node.node_id)>>
                      ELSE UNCHANGED <<resolved_nodes, schema_errors, log>>
    /\ UNCHANGED <<inputs, cliVars, writers, build_calls, build, flow_doc_json, pack_meta, builder,
                   fsVars, now, handed, manifest_reads, pc, result, temp_pack>>

\* the loop body passing over every built-in node, component.exec included
ResolveNodeSkippingExec ==
    /\ pc = "resolve"
    /\ idx <= Len(flow)
    /\ LET node == load_and_validate_bundle(flow).nodes[idx]
           r == resolve_node(node, flow_doc_json)
       IN  IF is_builtin_component(node.component.name)
           THEN /\ idx' = idx + 1
                /\ UNCHANGED <<pc, result, temp_pack, resolved_nodes, schema_errors, log,
                               resolver_calls>>
           ELSE /\ resolver_calls' = resolver_calls
                                     \o resolver_invocations(build, node, flow_doc_json)
                /\ IF r.ok
                   THEN /\ idx' = idx + 1
                        /\ schema_errors' = schema_errors \o validate_node(r.val)
                        /\ resolved_nodes' = Append(resolved_nodes, r.val)
                        /\ log' = log \o <<Event("resolved", node.node_id),
                                           Event("checked", node.node_id)>>
                        /\ UNCHANGED <<pc, result, temp_pack>>
                   ELSE /\ Abort(r.err)
                        /\ UNCHANGED <<idx, resolved_nodes, schema_errors, log>>
    /\ UNCHANGED <<inputs, cliVars, writers, build_calls, build, flow_doc_json, pack_meta, builder,
                   fsVars, now, handed, manifest_reads>>

\* build_once, lines 106-120: one iteration of `for node in &bundle.nodes`
ResolveNode ==
    /\ pc = "resolve"
    /\ idx <= Len(flow)
    /\ LET node == load_and_validate_bundle(flow).nodes[idx]
           exec == node.component.name = "component.exec"
           r == IF exec THEN resolve_component_exec_node(node, flow_doc_json)
                ELSE resolve_node(node, flow_doc_json)
       IN  IF is_builtin_component(node.component.name) /\ ~exec
           THEN /\ idx' = idx + 1
                /\ UNCHANGED <<pc, result, temp_pack, resolved_nodes, schema_errors, log,
                               resolver_calls>>
           ELSE /\ resolver_calls' = resolver_calls
                                     \o resolver_invocations(build, node, flow_doc_json)
                /\ IF r.ok
                   THEN /\ idx' = idx + 1
                        /\ schema_errors' = schema_errors \o validate_node(r.val)
                        /\ resolved_nodes' = Append(resolved_nodes, r.val)
                        /\ log' = log \o <<Event("resolved", node.node_id),
                                           Event("checked", node.node_id)>>
                        /\ UNCHANGED <<pc, result, temp_pack>>
                   ELSE /\ Abort(r.err)
                        /\ UNCHANGED <<idx, resolved_nodes, schema_errors, log>>
    /\ UNCHANGED <<inputs, cliVars, writers, build_calls, build, flow_doc_json, pack_meta, builder,
                   fsVars, now, handed, manifest_reads>>

\* build_once, lines 122-124: the decision on the aggregated schema errors
SchemaGate ==
    /\ pc = "resolve"
    /\ idx > Len(flow)
    /\ IF schema_errors # <<>>
       THEN /\ Abort(report_schema_errors(schema_errors))
            /\ UNCHANGED log
       ELSE /\ pc' = "normalize"
            /\ log' = Append(log, Event("SchemaChecked", ""))
            /\ UNCHANGED <<result, temp_pack>>
    /\ UNCHANGED <<inputs, cliVars, writers, callVars, build, buildVars, fsVars, now, handed, manifest_reads>>

NormalizedEvents(nodes) == [i \in DOMAIN nodes |-> Event("normalized", nodes[i].node_id)]

\* build_once, line 128
EnsureNodeOperations ==
    /\ pc = "normalize"
    /\ LET r == ensure_node_operations(flow_doc_json, resolved_nodes) IN
       /\ manifest_reads' = r.reads
       /\ IF r.ok
          THEN /\ flow_doc_json' = r.doc
               /\ pc' = "diagnostics"
               /\ log' = log \o NormalizedEvents(resolved_nodes)
                             \o <<Event("ConfigNormalized", "")>>
               /\ UNCHANGED <<result, temp_pack>>
          ELSE /\ Abort(Error("InvalidManifestJson", "", <<>>))
               /\ UNCHANGED <<flow_doc_json, log>>
    /\ UNCHANGED <<inputs, cliVars, writers, callVars, build, idx, resolved_nodes, schema_errors, pack_meta, builder,
                   fsVars, now, handed>>

\* build_once, line 130
WriteResolvedConfigs ==
    /\ pc = "diagnostics"
    /\ diag' = write_resolved_configs(resolved_nodes, diag)
    /\ pc' = "meta"
    /\ log' = Append(log, Event("DiagnosticsWritten", ""))
    /\ UNCHANGED <<inputs, cliVars, writers, callVars, build, buildVars, out_file, out_parent, temp_pack, now, handed,
                   manifest_reads, result>>

\* build_once, line 132; the clock is read when the descriptor gives no created_at_utc
LoadPackMeta ==
    /\ pc = "meta"
    /\ \E t \in now..MaxClock :
         LET r == load_pack_meta(meta, load_and_validate_bundle(flow), t)
             reads_clock == unwrap_or(meta, Descriptor(None, None, None, None)).created_at_utc = None
         IN  /\ (~reads_clock => t = now)
             /\ now' = t
             /\ IF r.ok
                THEN /\ pack_meta' = Some(r.val)
                     /\ pc' = "builder"
                     /\ log' = Append(log, Event("MetaLoaded", ""))
                     /\ UNCHANGED <<result, temp_pack>>
                ELSE /\ Abort(r.err)
                     /\ UNCHANGED <<pack_meta, log>>
    /\ UNCHANGED <<inputs, cliVars, writers, callVars, build, idx, flow_doc_json, resolved_nodes, schema_errors, builder,
                   fsVars, handed, manifest_reads>>

\* build_once, lines 133-140: the builder with the flow, the provenance and the artifacts
MakeBuilder ==
    /\ pc = "builder"
    /\ \E t \in now..MaxClock :
       \E artifacts \in collect_component_artifacts(resolved_nodes) :
         /\ now' = t
         /\ builder' = Some([meta |-> pack_meta[1],
                             flow |-> to_pack_flow_bundle(load_and_validate_bundle(flow),
                                                          flow_doc_json, flow),
                             provenance |-> build_provenance(t, hostname, git),
                             components |-> artifacts])
    /\ pc' = "mkdir"
    /\ log' = Append(log, Event("ArtifactsCollected", ""))
    /\ UNCHANGED <<inputs, cliVars, writers, callVars, build, idx, flow_doc_json, resolved_nodes, schema_errors,
                   pack_meta, fsVars, temp_pack, handed, manifest_reads, result>>

\* build_once, lines 142-147: the parent directory of the output path
CreateOutputDir ==
    /\ pc = "mkdir"
    /\ pc' = "assemble"
    /\ out_parent' = (IF build = 1 THEN TRUE ELSE out_parent)
    /\ UNCHANGED <<inputs, cliVars, writers, callVars, build, buildVars, out_file, diag, temp_pack, now, handed,
                   manifest_reads, log, result>>

\* an assembly that leaves what it has written at the path when it fails
AssembleLeavingPartial ==
    /\ pc = "assemble"
    /\ handed' = Append(handed, builder[1])
    /\ \E assembled \in BOOLEAN :
         /\ IF build = 1
            THEN out_file' = Some(builder[1]) /\ UNCHANGED temp_pack
            ELSE IF assembled THEN temp_pack' = Some(builder[1]) /\ UNCHANGED out_file
            ELSE temp_pack' = None /\ UNCHANGED out_file
         /\ IF assembled
            THEN /\ pc' = IF build = 1 THEN "strict" ELSE "compare"
                 /\ log' = Append(log, Event("Assembled", ""))
                 /\ UNCHANGED result
            ELSE /\ pc' = "done"
                 /\ result' = Failed(IF build = 2
                                     THEN Error("DeterminismBuildFailed", "ArchiveAssemblyFailed", <<>>)
                                     ELSE Error("ArchiveAssemblyFailed", "", <<>>))
                 /\ UNCHANGED log
    /\ UNCHANGED <<inputs, cliVars, writers, callVars, build, buildVars, out_parent, diag, now, manifest_reads>>

\* PackBuilder::build (spec 5, 6): the archive is a function of what the builder was
\* given and appears at the path only when the assembly succeeds
Assemble ==
    /\ pc = "assemble"
    /\ handed' = Append(handed, builder[1])
    /\ \E assembled \in BOOLEAN :
         IF assembled
         THEN /\ IF build = 1
                 THEN out_file' = Some(builder[1]) /\ UNCHANGED temp_pack
                 ELSE temp_pack' = Some(builder[1]) /\ UNCHANGED out_file
              /\ pc' = IF build = 1 THEN "strict" ELSE "compare"
              /\ log' = Append(log, Event("Assembled", ""))
              /\ UNCHANGED result
         ELSE /\ Abort(Error("ArchiveAssemblyFailed", "", <<>>))
              /\ UNCHANGED <<out_file, log>>
    /\ UNCHANGED <<inputs, cliVars, writers, callVars, build, buildVars, out_parent, diag, now, manifest_reads>>

\* run, lines 71-80
StrictCheck ==
    /\ pc = "strict"
    /\ IF strict_mode_enabled(strict_env)
       THEN /\ pc' = "load"
            /\ build' = 2
            /\ UNCHANGED result
       ELSE /\ pc' = "done"
            /\ result' = Succeeded
            /\ UNCHANGED build
    /\ UNCHANGED <<inputs, cliVars, writers, callVars, buildVars, fsVars, temp_pack, now, handed, manifest_reads, log>>

\* a comparison whose mismatch is only a warning
CompareArchivesWarnOnly ==
    /\ pc = "compare"
    /\ LET safe_output == normalize_under_root(workspace_root, output_path, out_file # None)
       IN  result' = IF ~safe_output.ok THEN Failed(safe_output.err) ELSE Succeeded
    /\ pc' = "done"
    /\ temp_pack' = None
    /\ UNCHANGED <<inputs, cliVars, writers, callVars, build, buildVars, fsVars, now, handed, manifest_reads, log>>

\* verify_determinism, lines 181-192
CompareArchives ==
    /\ pc = "compare"
    /\ LET safe_output == normalize_under_root(workspace_root, output_path, out_file # None)
           expected == out_file
           actual == temp_pack
       IN  result' = IF ~safe_output.ok THEN Failed(safe_output.err)
                     ELSE IF expected # actual
                     THEN Failed(Error("NonDeterministicBuild", "", <<>>))
                     ELSE Succeeded
    /\ pc' = "done"
    /\ temp_pack' = None
    /\ UNCHANGED <<inputs, cliVars, writers, callVars, build, buildVars, fsVars, now, handed, manifest_reads, log>>

Next ==
    \/ RunStart
    \/ LoadFlow
    \/ ResolveNode
    \/ SchemaGate
    \/ EnsureNodeOperations
    \/ WriteResolvedConfigs
    \/ LoadPackMeta
    \/ MakeBuilder
    \/ CreateOutputDir
    \/ Assemble
    \/ StrictCheck
    \/ CompareArchives

Spec == Init /\ [][Next]_vars

(***************************************************************************)
(* The node loop of build_once on its own: build_once from line 106 on,    *)
(* entered with a bundle and a JSON document that may lack the bundle's    *)
(* last node, over every shape of node declaration.  The rest of the run   *)
(* follows as in Spec.                                                     *)
(***************************************************************************)
InitNodes ==
    /\ flow \in NodeFlows
    /\ flow_status = "ok"
    /\ flow_path = Path(FALSE, <<"flows", "main.ygtc">>)
    /\ output_path = Path(FALSE, <<"dist", "out.gtpack">>)
    /\ meta = ValidDescriptor
    /\ strict_env \in { None, Some("1") }
    /\ doc_lacks_last \in BOOLEAN
    /\ meta_path = Some(MetaFile)
    /\ component_dir = None
    /\ hostname = Some("h1")
    /\ git = NoGit
    /\ pc = "resolve"
    /\ build = 1
    /\ idx = 1
    /\ flow_doc_json = parse_flow_source(flow, doc_lacks_last)
    /\ resolved_nodes = <<>>
    /\ schema_errors = <<>>
    /\ pack_meta = None
    /\ builder = None
    /\ out_file = None
    /\ temp_pack = None
    /\ out_parent = FALSE
    /\ diag = EmptyMap
    /\ now = 0
    /\ handed = <<>>
    /\ manifest_reads = {}
    /\ log = <<Event("FlowValidated", "")>>
    /\ result = Running
    /\ build_calls = 1
    /\ resolver_calls = <<>>
    /\ config_load = <<>>
    /\ provider_cmd = <<>>
    /\ path_check = <<>>
    /\ writers = <<>>

NextNodes ==
    \/ LoadFlow
    \/ ResolveNode
    \/ SchemaGate
    \/ EnsureNodeOperations
    \/ WriteResolvedConfigs
    \/ LoadPackMeta
    \/ MakeBuilder
    \/ CreateOutputDir
    \/ Assemble
    \/ StrictCheck
    \/ CompareArchives

SpecNodes == InitNodes /\ [][NextNodes]_vars

(***************************************************************************)
(* A run in a working directory in which an earlier build may have left    *)
(* its diagnostics files, under every kind of value of the strict flag.    *)
(***************************************************************************)
\* the resolved nodes of a flow of ordinary nodes that all resolve
ResolvedOf(src) ==
    [i \in 1..Len(src) |-> resolve_node(NodeRef(src[i]), ParseFlowDoc(src)).val]

RerunTemplates ==
    { Template("echo", "*", Obj("text" :> JStr("hi"))),
      Template("upper", "*", Obj("text" :> JStr("hi"))),
      Template("qa", "*", Obj("op" :> JStr(" "))),
      Template("ghost", "*", Obj(EmptyMap)),
      Template("flow.call", "*", Obj(EmptyMap)) }

RerunFlows ==
    UNION { { [i \in 1..n |-> Decl(NodeIds[i], t[i])] : t \in [1..n -> RerunTemplates] }
            : n \in 1..MaxNodes }

\* the flows of the earlier build: two nodes, each on echo or upper
PriorFlows ==
    { <<Decl("n1", a), Decl("n2", b)>> :
        a, b \in { Template("echo", "=1", Obj("text" :> JStr("old"))),
                   Template("upper", "*", Obj("text" :> JStr("old"))) } }

\* .greentic/resolved_config as the earlier build left it (empty when there was none)
PriorDiags ==
    { EmptyMap } \cup { write_resolved_configs(ResolvedOf(f), EmptyMap) : f \in PriorFlows }

StrictFlagValues == { None, Some("1"), Some("true"), Some("TRUE"), Some("0"), Some("yes") }

InitRerun ==
    /\ flow \in RerunFlows
    /\ flow_status = "ok"
    /\ flow_path \in FlowPaths
    /\ output_path = Path(FALSE, <<"dist", "out.gtpack">>)
    /\ meta = ValidDescriptor
    /\ strict_env \in StrictFlagValues
    /\ UsualSurroundings
    /\ pc = "run"
    /\ build = 1
    /\ idx = 1
    /\ flow_doc_json = ParseFlowDoc(<<>>)
    /\ resolved_nodes = <<>>
    /\ schema_errors = <<>>
    /\ pack_meta = None
    /\ builder = None
    /\ out_file = None
    /\ temp_pack = None
    /\ out_parent = FALSE
    /\ diag \in PriorDiags
    /\ now = 0
    /\ handed = <<>>
    /\ manifest_reads = {}
    /\ log = <<>>
    /\ result = Running
    /\ build_calls = 0
    /\ resolver_calls = <<>>
    /\ config_load = <<>>
    /\ provider_cmd = <<>>
    /\ path_check = <<>>
    /\ writers = <<>>

SpecRerun == InitRerun /\ [][Next]_vars

(***************************************************************************)
(* Two builds that overlap in time in one working directory, each in its   *)
(* call of write_resolved_configs.  The directory is the path              *)
(* .greentic/resolved_config relative to the working directory, the same   *)
(* for both.  fs::write of one file is two steps, File::create (the file   *)
(* is opened and truncated) and write_all (the text is written from offset *)
(* 0 on, over whatever the file holds by then), and nothing locks the      *)
(* file.  writers[p].k is the number of files build p has written,         *)
(* writers[p].opened whether it has opened its next file.  A file that     *)
(* holds the whole text of one snapshot is that snapshot; a file that      *)
(* holds the text of one snapshot followed by what is left of longer texts *)
(* written before is a torn file.                                          *)
(***************************************************************************)
EmptyFile == [empty |-> TRUE]
TornFile(top, rest) == [top |-> top, rest |-> rest]

\* the bytes the keys and string values of a JSON object take
RECURSIVE object_len(_)
object_len(o) ==
    IF DOMAIN o = {} THEN 0
    ELSE LET k == CHOOSE x \in DOMAIN o : TRUE IN
         Len(k) + Len(o[k].s) + object_len([x \in DOMAIN o \ {k} |-> o[x]])

\* the length of serde_json::to_string_pretty of a snapshot, up to the punctuation all
\* snapshots of one shape share; a version n.0.0 takes the same bytes for every n
text_len(snapshot) ==
    Len(snapshot.node_id) + Len(snapshot.component) + object_len(snapshot.config.o)

\* what a file holds, as the pieces of text it is made of: piece i gives the bytes from
\* the end of piece i - 1 up to `upto`, taken from the text of `snap`
pieces_of(file) ==
    IF "empty" \in DOMAIN file THEN <<>>
    ELSE IF "top" \in DOMAIN file
    THEN <<[snap |-> file.top, upto |-> text_len(file.top)]>> \o file.rest
    ELSE <<[snap |-> file, upto |-> text_len(file)]>>

\* write_all of the text of a snapshot at offset 0 of a file opened without O_APPEND
write_all(file, snapshot) ==
    LET left == SelectSeq(pieces_of(file), LAMBDA piece : piece.upto > text_len(snapshot)) IN
    IF left = <<>> THEN snapshot ELSE TornFile(snapshot, left)

WriterFlows ==
    UNION { { [i \in 1..n |-> Decl(NodeIds[i], t[i])] :
                t \in [1..n -> { Template("echo", "*", Obj("text" :> JStr("hi"))),
                                 Template("upper", "*", Obj("text" :> JStr("hi"))) }] }
            : n \in 1..MaxNodes }

InitWriters ==
    /\ writers \in [1..2 -> { [nodes |-> ResolvedOf(f), k |-> 0, opened |-> FALSE] :
                                f \in WriterFlows }]
    /\ flow = <<>>
    /\ flow_status = "ok"
    /\ flow_path = Path(FALSE, <<"flows", "main.ygtc">>)
    /\ output_path = Path(FALSE, <<"dist", "out.gtpack">>)
    /\ meta = None
    /\ strict_env = None
    /\ UsualSurroundings
    /\ pc = "diagnostics"
    /\ build = 1
    /\ idx = 1
    /\ flow_doc_json = ParseFlowDoc(<<>>)
    /\ resolved_nodes = <<>>
    /\ schema_errors = <<>>
    /\ pack_meta = None
    /\ builder = None
    /\ out_file = None
    /\ temp_pack = None
    /\ out_parent = FALSE
    /\ diag = EmptyMap
    /\ now = 0
    /\ handed = <<>>
    /\ manifest_reads = {}
    /\ log = <<>>
    /\ result = Running
    /\ build_calls = 2
    /\ resolver_calls = <<>>
    /\ config_load = <<>>
    /\ provider_cmd = <<>>
    /\ path_check = <<>>

\* write_resolved_configs, line 299, fs::write: build p creates or truncates the file of
\* its next node
OpenSnapshot(p) ==
    /\ writers[p].k < Len(writers[p].nodes)
    /\ ~writers[p].opened
    /\ LET node == writers[p].nodes[writers[p].k + 1] IN
       diag' = Put(diag, node.node_id, EmptyFile)
    /\ writers' = [writers EXCEPT ![p].opened = TRUE]
    /\ UNCHANGED <<inputs, cliVars, callVars, build, pc, buildVars, out_file, out_parent, temp_pack,
                   now, handed, manifest_reads, log, result>>

\* write_resolved_configs, line 299, fs::write: build p writes the text of the snapshot
\* into the file it has opened
WriteSnapshot(p) ==
    /\ writers[p].opened
    /\ LET node == writers[p].nodes[writers[p].k + 1] IN
       diag' = Put(diag, node.node_id, write_all(diag[node.node_id], Snapshot(node)))
    /\ writers' = [writers EXCEPT ![p].k = @ + 1, ![p].opened = FALSE]
    /\ UNCHANGED <<inputs, cliVars, callVars, build, pc, buildVars, out_file, out_parent, temp_pack,
                   now, handed, manifest_reads, log, result>>

NextWriters == \E p \in DOMAIN writers : OpenSnapshot(p) \/ WriteSnapshot(p)

SpecWriters == InitWriters /\ [][NextWriters]_vars

(***************************************************************************)
(* A run over every shape of metadata descriptor: each field given or      *)
(* left out, the version valid semver or not.                              *)
(***************************************************************************)
VersionStrings == { "1.2.3", "1.2", "one" }

Descriptors ==
    { [pack_id |-> i, version |-> v, name |-> n, created_at_utc |-> c, entry_flows |-> e] :
        i \in { None, Some(<<"acme.pack">>) },
        v \in { None } \cup { Some(x) : x \in VersionStrings },
        n \in { None, Some("Acme") },
        c \in { None, Some(<<"literal", 0>>) },
        e \in { None, Some(<<"main", "aux">>) } }

MetaFlows ==
    { <<Decl("n1", t)>> : t \in { Template("echo", "*", Obj("text" :> JStr("hi"))),
                                  Template("ghost", "*", Obj(EmptyMap)) } }

InitMeta ==
    /\ flow \in MetaFlows
    /\ flow_status = "ok"
    /\ flow_path = Path(FALSE, <<"flows", "main.ygtc">>)
    /\ output_path = Path(FALSE, <<"dist", "out.gtpack">>)
    /\ meta \in { None } \cup { Some(d) : d \in Descriptors }
    /\ strict_env \in { None, Some("1") }
    /\ UsualSurroundings
    /\ pc = "run"
    /\ build = 1
    /\ idx = 1
    /\ flow_doc_json = ParseFlowDoc(<<>>)
    /\ resolved_nodes = <<>>
    /\ schema_errors = <<>>
    /\ pack_meta = None
    /\ builder = None
    /\ out_file = None
    /\ temp_pack = None
    /\ out_parent = FALSE
    /\ diag = EmptyMap
    /\ now = 0
    /\ handed = <<>>
    /\ manifest_reads = {}
    /\ log = <<>>
    /\ result = Running
    /\ build_calls = 0
    /\ resolver_calls = <<>>
    /\ config_load = <<>>
    /\ provider_cmd = <<>>
    /\ path_check = <<>>
    /\ writers = <<>>

SpecMeta == InitMeta /\ [][Next]_vars

\* the pack build at rest: what the variables of run hold in the specifications of
\* the other commands
PipelineIdle ==
    /\ flow = <<>>
    /\ flow_status = "ok"
    /\ flow_path = Path(FALSE, <<"flows", "main.ygtc">>)
    /\ output_path = Path(FALSE, <<"dist", "out.gtpack">>)
    /\ meta = None
    /\ strict_env = None
    /\ UsualSurroundings
    /\ pc = "idle"
    /\ build = 1
    /\ idx = 1
    /\ flow_doc_json = ParseFlowDoc(<<>>)
    /\ resolved_nodes = <<>>
    /\ schema_errors = <<>>
    /\ pack_meta = None
    /\ builder = None
    /\ out_file = None
    /\ temp_pack = None
    /\ out_parent = FALSE
    /\ diag = EmptyMap
    /\ now = 0
    /\ handed = <<>>
    /\ manifest_reads = {}
    /\ log = <<>>
    /\ result = Running
    /\ build_calls = 0
    /\ resolver_calls = <<>>
    /\ writers = <<>>

pipelineVars == <<inputs, pc, build, buildVars, fsVars, temp_pack, now, handed,
                  manifest_reads, log, result, callVars, writers>>

(***************************************************************************)
(* Configuration loading (src/src/config.rs).  A path is its sequence of   *)
(* segments.  The environment gives the three config variables (unset,     *)
(* empty or a path), XDG_CONFIG_HOME and the home directory; dirs::        *)
(* config_dir is $XDG_CONFIG_HOME or $HOME/.config.  Each file is absent,  *)
(* valid TOML or invalid TOML.                                             *)
(***************************************************************************)
ConfigVars == <<"GREENTIC_DEV_CONFIG_FILE", "GREENTIC_CONFIG_FILE", "GREENTIC_CONFIG">>

\* Vec push unless already there
push_unique(vec, path) == IF \E i \in DOMAIN vec : vec[i] = path THEN vec ELSE Append(vec, path)

\* the first element of the sequence that satisfies exists, <<>> when none does
RECURSIVE find_existing(_, _)
find_existing(paths, files) ==
    IF paths = <<>> THEN <<>>
    ELSE IF files[Head(paths)] # "absent" THEN <<Head(paths)>>
    ELSE find_existing(Tail(paths), files)

\* the first of the three variables that is set and not empty, <<>> when none is
RECURSIVE first_env(_, _)
first_env(env, i) ==
    IF i > Len(ConfigVars) THEN <<>>
    ELSE IF env[i] # <<>> /\ env[i][1] # <<>> THEN <<i>>
    ELSE first_env(env, i + 1)

\* the discovery candidates of resolve_config_path, lines 226-245
config_candidates(e) ==
    LET xdg_config == IF e.xdg_config_home # <<>> THEN e.xdg_config_home
                      ELSE IF e.home # <<>> THEN <<e.home[1] \o <<".config">>>>
                      ELSE <<>>
        c1 == IF xdg_config # <<>>
              THEN push_unique(<<>>, xdg_config[1] \o <<"greentic-dev", "config.toml">>)
              ELSE <<>>
        c2 == IF e.home # <<>>
              THEN push_unique(c1, e.home[1] \o <<".config", "greentic-dev", "config.toml">>)
              ELSE c1
    IN  IF e.home # <<>>
        THEN push_unique(c2, e.home[1] \o <<".greentic", "config.toml">>)
        ELSE c2

\* a discovery that looks at the candidates from the last to the first
resolve_config_path_last_first(e) ==
    LET cands == config_candidates(e)
        rev == [i \in DOMAIN cands |-> cands[Len(cands) + 1 - i]]
    IN  [selected |-> find_existing(rev, e.files), attempted |-> cands, forced |-> <<>>]

\* resolve_config_path: ConfigResolution {selected, attempted, forced}
resolve_config_path(e) ==
    IF e.path_override # <<>>
    THEN [selected |-> e.path_override, attempted |-> e.path_override, forced |-> <<"Arg">>]
    ELSE IF first_env(e.env, 1) # <<>>
    THEN LET i == first_env(e.env, 1)[1] IN
         [selected |-> e.env[i], attempted |-> e.env[i], forced |-> <<ConfigVars[i]>>]
    ELSE LET cands == config_candidates(e) IN
         [selected |-> find_existing(cands, e.files), attempted |-> cands, forced |-> <<>>]

\* the GreenticConfig a valid file parses to, told apart by the file
ParsedConfig(path) == <<"config of", path>>
DefaultConfig == <<"default">>

\* load_with_meta; `read` is the set of files it read
load_with_meta(e) ==
    LET resolution == resolve_config_path(e) IN
    IF resolution.selected = <<>>
    THEN [ok |-> TRUE, config |-> DefaultConfig, loaded_from |-> <<>>,
          attempted_paths |-> resolution.attempted, read |-> {}, err |-> NoError]
    ELSE LET selected == resolution.selected[1] IN
         IF e.files[selected] = "absent"
         THEN [ok |-> FALSE, config |-> DefaultConfig, loaded_from |-> <<>>,
               attempted_paths |-> resolution.attempted, read |-> {},
               err |-> Error("ConfigFileMissing", selected,
                             IF resolution.forced = <<>> THEN <<"config discovery">>
                             ELSE IF resolution.forced = <<"Arg">>
                             THEN <<"explicit config override">>
                             ELSE resolution.forced)]
         ELSE IF e.files[selected] = "invalid"
         THEN [ok |-> FALSE, config |-> DefaultConfig, loaded_from |-> <<>>,
               attempted_paths |-> resolution.attempted, read |-> {selected},
               err |-> Error("ConfigParseFailed", selected, <<>>)]
         ELSE [ok |-> TRUE, config |-> ParsedConfig(selected), loaded_from |-> <<selected>>,
               attempted_paths |-> resolution.attempted, read |-> {selected},
               err |-> NoError]

XdgDir == <<"xdg">>
HomeDir == <<"home">>
ForcedPath == <<"forced.toml">>

ConfigPaths ==
    { XdgDir \o <<"greentic-dev", "config.toml">>,
      HomeDir \o <<".config", "greentic-dev", "config.toml">>,
      HomeDir \o <<".greentic", "config.toml">>,
      ForcedPath }

ConfigEnvs ==
    [ path_override : { <<>>, <<ForcedPath>> },
      env : [1..3 -> { <<>>, <<<<>>>>, <<ForcedPath>> }],
      xdg_config_home : { <<>>, <<XdgDir>> },
      home : { <<>>, <<HomeDir>> },
      files : [ConfigPaths -> {"absent", "valid", "invalid"}] ]

InitConfig ==
    /\ PipelineIdle
    /\ provider_cmd = <<>>
    /\ path_check = <<>>
    /\ config_load \in { [e |-> e, out |-> <<>>] : e \in ConfigEnvs }

\* one call load_with_meta(path_override)
LoadWithMeta ==
    /\ config_load.out = <<>>
    /\ config_load' = [config_load EXCEPT !.out = <<load_with_meta(config_load.e)>>]
    /\ UNCHANGED <<pipelineVars, provider_cmd, path_check>>

NextConfig == LoadWithMeta

SpecConfig == InitConfig /\ [][NextConfig]_vars

(***************************************************************************)
(* pack new-provider (src/src/pack_cli.rs).  The manifest on disk is seen  *)
(* through its provider extension: absent, inline Provider(list), or       *)
(* inline Other(value) that may or may not decode to a list; a manifest    *)
(* file that cannot be read is "Missing".  Strings that are parsed are     *)
(* sequences of tokens.  Provider ids are ordered as their bytes are.      *)
(***************************************************************************)
MaxCommands == 2

IdOrder == <<" ", "a", "b">>
ProviderIds == {IdOrder[i] : i \in DOMAIN IdOrder}
id_rank(id) == CHOOSE i \in DOMAIN IdOrder : IdOrder[i] = id

\* str::trim().is_empty() of a string given by its tokens
tokens_blank(tokens) == \A i \in DOMAIN tokens : trim_is_empty(tokens[i])

Runtimes ==
    { <<"comp", "::", "e1", "@", "w">>,
      <<"comp", "::", "e2", "@", "w">>,
      <<"comp", "::", " ", "@", "w">>,
      <<"comp", "@", "w">> }

\* parse_runtime_ref: rsplit_once('@'), then split_once("::") of the left part
parse_runtime_ref(input) ==
    LET ats == { i \in DOMAIN input : input[i] = "@" } IN
    IF ats = {} THEN Err(Error("RuntimeForm", "", <<>>))
    ELSE LET at == CHOOSE i \in ats : \A j \in ats : j <= i
             left == SubSeq(input, 1, at - 1)
             world == SubSeq(input, at + 1, Len(input))
             seps == { i \in DOMAIN left : left[i] = "::" }
         IN  IF seps = {} THEN Err(Error("RuntimeForm", "", <<>>))
             ELSE LET sep == CHOOSE i \in seps : \A j \in seps : i <= j IN
                  Ok([component_ref |-> SubSeq(left, 1, sep - 1),
                      export |-> SubSeq(left, sep + 1, Len(left)),
                      world |-> world])

\* pack_init::slugify of a provider id
slugify(id) == <<"slug", id>>

CustomRef == <<"custom", "provider.yaml">>
config_ref_of(args) ==
    IF args.manifest # None THEN args.manifest[1]
    ELSE <<"providers", slugify(args.id), "provider.yaml">>

ProviderDecl(args, runtime) ==
    [provider_type |-> args.id,
     capabilities |-> IF args.kind # None THEN <<args.kind[1]>> ELSE <<>>,
     config_schema_ref |-> config_ref_of(args),
     runtime |-> runtime]

\* the ProviderManifest scaffold_provider_manifest serializes
ProviderManifest(decl) ==
    [provider_type |-> decl.provider_type,
     capabilities |-> decl.capabilities,
     config_schema_ref |-> <<decl.config_schema_ref>>]

NoExtension == [variant |-> "None", decodes |-> TRUE, providers |-> <<>>]
ProviderInline(providers) == [variant |-> "Provider", decodes |-> TRUE, providers |-> providers]
OtherInline(decodes, providers) == [variant |-> "Other", decodes |-> decodes, providers |-> providers]
MissingManifest == [variant |-> "Missing", decodes |-> FALSE, providers |-> <<>>]

\* load_provider_extension: the list the manifest's extension holds, the default (empty)
\* when there is none or when an Other value does not decode
load_provider_extension(manifest) ==
    IF manifest.variant = "Provider" THEN manifest.providers
    ELSE IF manifest.variant = "Other" /\ manifest.decodes THEN manifest.providers
    ELSE <<>>

\* a command that replaces an existing provider whether or not --force is given
replace_without_force(providers, id, force, decl) ==
    Ok(Append(SelectSeq(providers, LAMBDA q : q.provider_type # id), decl))

\* lines 106-119: the first entry of that id is removed when --force is given, the
\* command fails when it is not; the new declaration is pushed
push_provider(providers, id, force, decl) ==
    LET found == { i \in DOMAIN providers : providers[i].provider_type = id } IN
    IF found = {} THEN Ok(Append(providers, decl))
    ELSE IF ~force THEN Err(Error("ProviderExists", id, <<>>))
    ELSE LET existing == CHOOSE i \in found : \A j \in found : i <= j IN
         Ok(Append(SubSeq(providers, 1, existing - 1)
                   \o SubSeq(providers, existing + 1, Len(providers)), decl))

\* a list left in the order of insertion
keep_insertion_order(providers) == providers

\* sort_by(|a, b| a.provider_type.cmp(&b.provider_type)), a stable sort
RECURSIVE sort_by_provider_type(_)
sort_by_provider_type(providers) ==
    IF providers = <<>> THEN <<>>
    ELSE LET least == CHOOSE i \in DOMAIN providers :
                        /\ \A j \in DOMAIN providers :
                              id_rank(providers[i].provider_type) <= id_rank(providers[j].provider_type)
                        /\ \A j \in 1..(i - 1) :
                              id_rank(providers[j].provider_type) > id_rank(providers[i].provider_type)
         IN  <<providers[least]>>
             \o sort_by_provider_type(SubSeq(providers, 1, least - 1)
                                      \o SubSeq(providers, least + 1, Len(providers)))

\* validate_provider_extension: the first provider, in list order, that breaks a rule
validate_provider_extension(providers) ==
    LET bad(i) == \/ trim_is_empty(providers[i].provider_type)
                  \/ \E j \in 1..(i - 1) : providers[j].provider_type = providers[i].provider_type
                  \/ tokens_blank(providers[i].runtime.component_ref)
                  \/ tokens_blank(providers[i].runtime.export)
                  \/ tokens_blank(providers[i].runtime.world)
        bads == { i \in DOMAIN providers : bad(i) }
    IN  IF bads = {} THEN NoError
        ELSE LET i == CHOOSE k \in bads : \A j \in bads : k <= j IN
             IF trim_is_empty(providers[i].provider_type)
             THEN Error("EmptyProviderType", providers[i].provider_type, <<>>)
             ELSE IF \E j \in 1..(i - 1) : providers[j].provider_type = providers[i].provider_type
             THEN Error("DuplicateProviderType", providers[i].provider_type, <<>>)
             ELSE Error("RuntimeFields", providers[i].provider_type, <<>>)

\* a command that stores its result whether or not --dry-run is given
write_always(disk, args, providers, decl) ==
    [manifest |-> ProviderInline(providers),
     files |-> IF args.scaffold_files
               THEN [disk.files EXCEPT ![decl.config_schema_ref] = <<ProviderManifest(decl)>>]
               ELSE disk.files]

\* lines 130-136: set_provider_extension, write_manifest and, when asked for,
\* scaffold_provider_manifest, unless --dry-run
write_unless_dry_run(disk, args, providers, decl) ==
    IF args.dry_run THEN disk
    ELSE [manifest |-> ProviderInline(providers),
          files |-> IF args.scaffold_files
                    THEN [disk.files EXCEPT ![decl.config_schema_ref] = <<ProviderManifest(decl)>>]
                    ELSE disk.files]

\* pack_new_provider: the disk after the call, what was printed, and the outcome
pack_new_provider(disk, args) ==
    LET failed(e) == [disk |-> disk, stdout |-> <<>>, ok |-> FALSE, err |-> e] IN
    IF disk.manifest.variant = "Missing" THEN failed(Error("ManifestUnreadable", "", <<>>))
    ELSE LET runtime == parse_runtime_ref(args.runtime) IN
    IF ~runtime.ok THEN failed(runtime.err)
    ELSE LET decl == ProviderDecl(args, runtime.val)
             pushed == push_provider(load_provider_extension(disk.manifest),
                                     args.id, args.force, decl)
         IN
    IF ~pushed.ok THEN failed(pushed.err)
    ELSE LET providers == sort_by_provider_type(pushed.val)
             invalid == validate_provider_extension(providers)
         IN
    IF invalid # NoError THEN failed(invalid)
    ELSE [disk |-> write_unless_dry_run(disk, args, providers, decl),
          stdout |-> IF args.json THEN <<decl>> ELSE <<>>,
          ok |-> TRUE, err |-> NoError]

\* the arguments of one command; --manifest, --kind and --json are given together or
\* not at all, and only with the first runtime
Args(id, rt, opts, f, d, sc) ==
    [id |-> id, runtime |-> rt, manifest |-> IF opts THEN Some(CustomRef) ELSE None,
     kind |-> IF opts THEN Some("database") ELSE None, json |-> opts,
     force |-> f, dry_run |-> d, scaffold_files |-> sc]

ProviderArgs ==
    { Args(id, rt, FALSE, f, d, sc) :
        id \in ProviderIds, rt \in Runtimes, f \in BOOLEAN, d \in BOOLEAN, sc \in BOOLEAN }
    \cup
    { Args(id, <<"comp", "::", "e1", "@", "w">>, TRUE, f, d, sc) :
        id \in ProviderIds, f \in BOOLEAN, d \in BOOLEAN, sc \in BOOLEAN }

RefPaths == { config_ref_of(a) : a \in ProviderArgs }

\* a declaration as an earlier command or another tool left it in the manifest
StoredDecl(id, export) ==
    [provider_type |-> id, capabilities |-> <<>>,
     config_schema_ref |-> <<"providers", slugify(id), "provider.yaml">>,
     runtime |-> [component_ref |-> <<"comp">>, export |-> <<export>>, world |-> <<"w">>]]

StoredManifests ==
    { NoExtension,
      ProviderInline(<<>>),
      ProviderInline(<<StoredDecl("a", "e1")>>),
      ProviderInline(<<StoredDecl("b", "e1"), StoredDecl("a", "e1")>>),
      ProviderInline(<<StoredDecl("a", "e1"), StoredDecl("a", "e2")>>),
      OtherInline(TRUE, <<StoredDecl("b", "e1")>>),
      OtherInline(FALSE, <<>>),
      MissingManifest }

InitProvider ==
    /\ PipelineIdle
    /\ config_load = <<>>
    /\ path_check = <<>>
    /\ provider_cmd \in
         { [initial |-> m, manifest |-> m, files |-> [r \in RefPaths |-> <<>>],
            last |-> <<>>, n |-> 0] : m \in StoredManifests }

\* one run of `pack new-provider` with some arguments
PackNewProvider ==
    /\ provider_cmd.n < MaxCommands
    /\ \E args \in ProviderArgs :
         LET before == [manifest |-> provider_cmd.manifest, files |-> provider_cmd.files]
             r == pack_new_provider(before, args)
         IN  provider_cmd' =
               [provider_cmd EXCEPT !.manifest = r.disk.manifest,
                                    !.files = r.disk.files,
                                    !.last = <<[args |-> args, before |-> before, ok |-> r.ok,
                                                err |-> r.err, stdout |-> r.stdout]>>,
                                    !.n = @ + 1]
    /\ UNCHANGED <<pipelineVars, config_load, path_check>>

NextProvider == PackNewProvider

SpecProvider == InitProvider /\ [][NextProvider]_vars

(***************************************************************************)
(* normalize_under_root on its own: a root, a candidate of at most         *)
(* MaxSegments segments, absolute or relative, naming a file that exists   *)
(* or not.                                                                 *)
(***************************************************************************)
MaxSegments == 3

Segments == {"ws", "dist", "..", "f"}
Roots == { workspace_root, workspace_root \o <<"dist">> }

RECURSIVE SegmentSeqs(_)
SegmentSeqs(n) ==
    IF n = 0 THEN { <<>> }
    ELSE LET shorter == SegmentSeqs(n - 1) IN
         shorter \cup { Append(p, x) : p \in { q \in shorter : Len(q) = n - 1 }, x \in Segments }

Candidates == { Path(abs, segs) : abs \in BOOLEAN, segs \in SegmentSeqs(MaxSegments) }

InitPaths ==
    /\ PipelineIdle
    /\ config_load = <<>>
    /\ provider_cmd = <<>>
    /\ path_check \in { [root |-> r, candidate |-> c, exists |-> x, out |-> <<>>] :
                          r \in Roots, c \in Candidates, x \in BOOLEAN }

\* one call normalize_under_root(root, candidate)
NormalizeUnderRoot ==
    /\ path_check.out = <<>>
    /\ path_check' = [path_check EXCEPT
                        !.out = <<normalize_under_root(path_check.root, path_check.candidate,
                                                       path_check.exists)>>]
    /\ UNCHANGED <<pipelineVars, config_load, provider_cmd>>

NextPaths == NormalizeUnderRoot

SpecPaths == InitPaths /\ [][NextPaths]_vars

(***************************************************************************)
(* ensure_node_operations on its own: applied, and applied again, to a     *)
(* document and a list of resolved nodes.  The list is that of the flow's  *)
(* nodes, or that list with its first node entered a second time.  idx     *)
(* counts the applications.                                                *)
(***************************************************************************)
InitNormalize ==
    /\ flow \in NormalizeFlows
    /\ flow_status = "ok"
    /\ flow_path = Path(FALSE, <<"flows", "main.ygtc">>)
    /\ output_path = Path(FALSE, <<"dist", "out.gtpack">>)
    /\ meta = None
    /\ strict_env = None
    /\ UsualSurroundings
    /\ pc = "apply"
    /\ build = 1
    /\ idx = 0
    /\ flow_doc_json = ParseFlowDoc(flow)
    /\ resolved_nodes \in { ResolvedOf(flow), ResolvedOf(flow) \o <<ResolvedOf(flow)[1]>> }
    /\ schema_errors = <<>>
    /\ pack_meta = None
    /\ builder = None
    /\ out_file = None
    /\ temp_pack = None
    /\ out_parent = FALSE
    /\ diag = EmptyMap
    /\ now = 0
    /\ handed = <<>>
    /\ manifest_reads = {}
    /\ log = <<>>
    /\ result = Running
    /\ build_calls = 0
    /\ resolver_calls = <<>>
    /\ config_load = <<>>
    /\ provider_cmd = <<>>
    /\ path_check = <<>>
    /\ writers = <<>>

\* one call ensure_node_operations(&mut flow_doc_json, &resolved_nodes)
ApplyEnsureNodeOperations ==
    /\ pc = "apply"
    /\ idx < MaxApplications
    /\ LET r == ensure_node_operations(flow_doc_json, resolved_nodes) IN
       /\ flow_doc_json' = r.doc
       /\ manifest_reads' = r.reads
    /\ idx' = idx + 1
    /\ UNCHANGED <<inputs, cliVars, writers, callVars, build, pc, resolved_nodes, schema_errors,
                   pack_meta, builder, fsVars, temp_pack, now, handed, log, result>>

NextNormalize == ApplyEnsureNodeOperations

SpecNormalize == InitNormalize /\ [][NextNormalize]_vars

(***************************************************************************)
(* Definitions the properties are stated with.                             *)
(***************************************************************************)
HasEvent(ev) == \E i \in DOMAIN log : log[i].ev = ev

Bundle == load_and_validate_bundle(flow)
SourceDoc == ParseFlowDoc(flow)

Skipped(node) ==
    is_builtin_component(node.component.name) /\ node.component.name # "component.exec"

Resolution(node) ==
    IF node.component.name = "component.exec"
    THEN resolve_component_exec_node(node, SourceDoc)
    ELSE resolve_node(node, SourceDoc)

\* every node of the flow that is not skipped resolves
AllResolve == \A i \in 1..Len(flow) : Skipped(Bundle.nodes[i]) \/ Resolution(Bundle.nodes[i]).ok

\* the violations of the nodes of the flow from position i on, in flow order
RECURSIVE ViolationsFrom(_)
ViolationsFrom(i) ==
    IF i > Len(flow) THEN <<>>
    ELSE (IF ~Skipped(Bundle.nodes[i]) /\ Resolution(Bundle.nodes[i]).ok
          THEN validate_node(Resolution(Bundle.nodes[i]).val) ELSE <<>>)
         \o ViolationsFrom(i + 1)

\* the error build_once returned, without the context verify_determinism adds
BuildError ==
    IF result.error.kind = "DeterminismBuildFailed"
    THEN Error(result.error.node, "", result.error.entries)
    ELSE result.error

\* the payload the flow document holds for a node: under the component key of the flow
DocConfig(doc, d) == doc.nodes[d.node_id][d.comp]

DeclOf(id) == CHOOSE d \in { flow[i] : i \in 1..Len(flow) } : d.node_id = id

NoDuplicateKeys(artifacts) ==
    \A i, j \in DOMAIN artifacts :
        (artifacts[i].name = artifacts[j].name /\ artifacts[i].version = artifacts[j].version)
            => i = j

\* the artifacts in the order in which their keys first appear in the node list
RECURSIVE FirstSeen(_, _)
FirstSeen(nodes, seen) ==
    IF nodes = <<>> THEN <<>>
    ELSE LET k == ArtifactKey(Head(nodes).component) IN
         IF k \in seen THEN FirstSeen(Tail(nodes), seen)
         ELSE <<to_artifact(Head(nodes).component)>> \o FirstSeen(Tail(nodes), seen \cup {k})

(***************************************************************************)
(* Properties.                                                             *)
(***************************************************************************)

\* C1: when the loop over the nodes has ended with schema errors accumulated, the
\* build has failed with the schema validation error, the assembler was not invoked
\* by this build, nothing is at the path this build writes to, and the failure
\* carries one entry (node id, component, pointer, message) per accumulated error;
\* a build never gets past the decision with errors accumulated.
C1_SchemaErrorsBlockAssembly ==
    /\ pc \in {"normalize", "diagnostics", "meta", "builder", "mkdir", "assemble"}
          => schema_errors = <<>>
    /\ (idx > Len(flow) /\ schema_errors # <<>> /\ pc = "done") =>
          /\ result.status = "failed"
          /\ BuildError.kind = "SchemaValidationFailed"
          /\ Len(BuildError.entries) = Len(schema_errors)
          /\ \A i \in DOMAIN schema_errors :
                BuildError.entries[i] = <<schema_errors[i].node_id, schema_errors[i].component,
                                          schema_errors[i].pointer, schema_errors[i].message>>
          /\ Len(handed) = build - 1
          /\ (build = 1 => out_file = None)
          /\ temp_pack = None

\* C1 witness: a build that failed at the decision with two errors, both reported
C1_Witness ==
    /\ pc = "done"
    /\ idx > Len(flow)
    /\ Len(schema_errors) >= 2
    /\ result.status = "failed"
    /\ Len(BuildError.entries) >= 2
    /\ out_file = None

\* C2 (as stated): whenever a node of the flow has a schema violation, the failure of
\* the build reports the violations of every violating node, whatever happens at the
\* nodes that come later in the list.
C2_AllViolationsReportedWhateverFollows ==
    (pc = "done" /\ schema_errors # <<>>) =>
        /\ result.status = "failed"
        /\ BuildError = report_schema_errors(ViolationsFrom(1))

\* C2 (amended): when every node of the flow that is not skipped resolves and a node
\* has a schema violation, the failure of the build reports the violations of every
\* violating node of the flow, in flow order, in the one failure.
C2_AllViolationsReported ==
    (pc = "done" /\ log # <<>> /\ AllResolve /\ ViolationsFrom(1) # <<>>) =>
        /\ result.status = "failed"
        /\ BuildError = report_schema_errors(ViolationsFrom(1))

\* C2 witness: two violating nodes, the failure names both
C2_Witness ==
    /\ pc = "done"
    /\ result.status = "failed"
    /\ BuildError.kind = "SchemaValidationFailed"
    /\ \E i, j \in DOMAIN BuildError.entries :
          BuildError.entries[i][1] = "n1" /\ BuildError.entries[j][1] = "n2"

\* C3: the two executions of build_once that a strict run makes from the same flow,
\* search path and metadata hand the same inputs (PackMeta, flow bundle, provenance,
\* ordered artifact list) to the assembler.
C3_IdenticalInputsHanded ==
    Len(handed) = 2 => handed[1] = handed[2]

\* the archive of the primary build, as it was when the verification build started
PrimaryArchive == Some(handed[1])

\* C4: in strict mode run succeeds only after a second build was assembled from the
\* same inputs and the whole content of its archive equalled that of the primary
\* archive; when the two archives differ at the comparison, run has failed.
C4_StrictMismatchIsFatal ==
    /\ (strict_mode_enabled(strict_env) /\ result.status = "ok") =>
          /\ Len(handed) = 2
          /\ out_file = PrimaryArchive
          /\ handed[2] = handed[1]
    /\ (pc = "done" /\ Len(handed) = 2 /\ log[Len(log)].ev = "Assembled"
        /\ handed[2] # handed[1]) =>
          result.status = "failed"

\* C4 witness: a strict run whose two archives differed and that failed for it
C4_Witness ==
    /\ strict_mode_enabled(strict_env)
    /\ pc = "done"
    /\ Len(handed) = 2
    /\ handed[2] # handed[1]
    /\ result.status = "failed"
    /\ result.error.kind = "NonDeterministicBuild"

\* C5: when run has failed, at whatever stage, no archive written by the run is at
\* the requested output path.
C5_NoArchiveAfterFailure ==
    result.status = "failed" => out_file = None

\* C6: the stages of a build run in the order NodesResolved, ConfigNormalized,
\* SchemaChecked: a node is schema-checked only after the configuration of every
\* resolved node has been normalized.
C6_NormalizedBeforeChecked ==
    \A i \in DOMAIN log :
        log[i].ev = "checked" => \E k \in 1..(i - 1) : log[k].ev = "ConfigNormalized"

\* C7: the artifacts handed to the builder hold no two entries of the same name and
\* version, and are at most as many as the resolved nodes.
C7_ArtifactsUnique ==
    builder # None =>
        /\ NoDuplicateKeys(builder[1].components)
        /\ Len(builder[1].components) <= Len(resolved_nodes)

\* C7 witness: two resolved nodes on the same component and version, one artifact
C7_Witness ==
    /\ builder # None
    /\ Len(resolved_nodes) = 2
    /\ ArtifactKey(resolved_nodes[1].component) = ArtifactKey(resolved_nodes[2].component)
    /\ Len(builder[1].components) = 1

\* C8: the artifacts are in the order in which their name@version keys first appear
\* in the list of resolved nodes.
C8_ArtifactsInFirstSeenOrder ==
    builder # None => builder[1].components = FirstSeen(resolved_nodes, {})

\* the payload a resolved node had in the flow source
SourceConfig(node) == DocConfig(SourceDoc, DeclOf(node.node_id))

\* C9: after ensure_node_operations, every resolved node (ordinary or inline
\* execution) whose payload had neither `operation` nor `op` and whose component
\* declares a first operation holds that operation under both keys in the document.
C9_DefaultOperationBackfilled ==
    HasEvent("ConfigNormalized") =>
        \A i \in DOMAIN resolved_nodes :
            LET node == resolved_nodes[i]
                before == SourceConfig(node)
                after == DocConfig(flow_doc_json, DeclOf(node.node_id))
                op == default_operation(node.component)
            IN  (/\ before.isObj
                 /\ "operation" \notin DOMAIN before.o
                 /\ "op" \notin DOMAIN before.o
                 /\ op.ok /\ op.val # <<>>)
                => /\ "operation" \in DOMAIN after.o /\ after.o["operation"] = JStr(op.val[1])
                   /\ "op" \in DOMAIN after.o /\ after.o["op"] = JStr(op.val[1])

\* a non-blank string under the key
NonBlankString(cfg, key) ==
    /\ cfg.isObj
    /\ key \in DOMAIN cfg.o
    /\ cfg.o[key].kind = "string"
    /\ cfg.o[key].s \notin Whitespace

\* C10: after ensure_node_operations, the entry of every resolved node whose payload
\* had a non-blank string under `operation` or under `op` is as it was in the flow
\* source, and the manifest of its component was not parsed for it.
C10_ExplicitOperationUntouched ==
    HasEvent("ConfigNormalized") =>
        \A i \in DOMAIN resolved_nodes :
            LET node == resolved_nodes[i]
                before == SourceConfig(node)
            IN  (NonBlankString(before, "operation") \/ NonBlankString(before, "op"))
                => /\ flow_doc_json.nodes[node.node_id] = SourceDoc.nodes[node.node_id]
                   /\ node.node_id \notin manifest_reads

\* C10 witness: a normalized build with an ordinary node that had only the legacy
\* `op`, whose component declares operations, and that still has no `operation`
C10_Witness ==
    /\ HasEvent("ConfigNormalized")
    /\ \E i \in DOMAIN resolved_nodes :
          LET node == resolved_nodes[i] IN
          /\ DeclOf(node.node_id).comp = node.component.name
          /\ NonBlankString(SourceConfig(node), "op")
          /\ "operation" \notin DOMAIN SourceConfig(node).o
          /\ default_operation(node.component).val # <<>>
          /\ "operation" \notin DOMAIN DocConfig(flow_doc_json, DeclOf(node.node_id)).o

\* the first operation the manifest of a node's component declares, <<>> when none
FirstDeclared(d) == default_operation(resolve_component(d.comp, d.req).val).val

\* C11: once ensure_node_operations has been applied, every key a payload held
\* before still holds the value it had; a node that had no usable operation and
\* whose component declares one holds both `operation` and `op`, each key that was
\* absent now holding the first declared operation; every other payload is as it
\* was; this is so too when the node list enters a node twice; and applying
\* ensure_node_operations to the document once more gives the same document.
C11_BackfillNeverOverwrites ==
    (pc = "apply" /\ idx >= 1) =>
        /\ \A i \in 1..Len(flow) :
             LET before == flow[i].cfg.o
                 after == DocConfig(flow_doc_json, flow[i]).o
                 first == FirstDeclared(flow[i])
             IN  /\ \A k \in DOMAIN before : k \in DOMAIN after /\ after[k] = before[k]
                 /\ IF ~has_op(before) /\ first # <<>>
                    THEN /\ DOMAIN after = DOMAIN before \cup {"operation", "op"}
                         /\ \A k \in {"operation", "op"} \ DOMAIN before :
                                after[k] = JStr(first[1])
                    ELSE after = before
        /\ ensure_node_operations(flow_doc_json, resolved_nodes).doc = flow_doc_json

\* applied twice to a list that enters the first node twice, whose payload held a
\* blank `operation` and no `op`: `op` was backfilled, `operation` is as it was
C11_Witness ==
    /\ pc = "apply"
    /\ idx = 2
    /\ Len(resolved_nodes) > Len(flow)
    /\ flow[1].cfg.o = ("operation" :> JStr("")) @@ ("text" :> JStr("hi"))
    /\ DocConfig(flow_doc_json, flow[1]).o =
          ("operation" :> JStr("")) @@ ("op" :> JStr("echo")) @@ ("text" :> JStr("hi"))

\* the positions at which the list of resolved nodes holds a node of this id
EntriesOf(id) == { j \in DOMAIN resolved_nodes : resolved_nodes[j].node_id = id }

\* the artifacts of the components the nodes of the flow resolve to
ArtifactsOfFlow ==
    { to_artifact(Resolution(Bundle.nodes[j]).val.component) :
        j \in { j \in 1..Len(flow) : ~Skipped(Bundle.nodes[j]) /\ Resolution(Bundle.nodes[j]).ok } }

\* C12: a built-in node that is not component.exec is passed over: the resolver is
\* not invoked for it, the node list holds no entry for it, it is not validated,
\* no diagnostics file bears its id and every artifact handed to the assembler is
\* that of a component some other node resolved to; a component.exec node the loop
\* has gone past has exactly one entry in the node list, and the build in which the
\* loop stopped at a component.exec node has failed without an entry for it.
C12_BuiltinsSkippedExecResolved ==
    /\ \A i \in 1..Len(flow) :
         LET n == Bundle.nodes[i] IN
         /\ Skipped(n) =>
              /\ \A c \in DOMAIN resolver_calls : resolver_calls[c].node_id # n.node_id
              /\ EntriesOf(n.node_id) = {}
              /\ \A e \in DOMAIN log : log[e].node # n.node_id
              /\ \A e \in DOMAIN schema_errors : schema_errors[e].node_id # n.node_id
              /\ n.node_id \notin DOMAIN diag
              /\ n.node_id \notin manifest_reads
         /\ (n.component.name = "component.exec" /\ i < idx) =>
              Cardinality(EntriesOf(n.node_id)) = 1
         /\ (n.component.name = "component.exec" /\ i = idx /\ pc = "done") =>
              /\ result.status = "failed"
              /\ result.error = resolve_component_exec_node(n, flow_doc_json).err
              /\ EntriesOf(n.node_id) = {}
    /\ \A k \in DOMAIN handed :
         \A a \in DOMAIN handed[k].components :
            handed[k].components[a] \in ArtifactsOfFlow

\* a build that succeeded on a flow of a built-in node and a component.exec node
C12_Witness ==
    /\ result = Succeeded
    /\ flow[1].comp \in {"emit.log", "session.wait", "flow.call"}
    /\ Len(flow) = 2
    /\ flow[2].comp = "component.exec"
    /\ Len(resolved_nodes) = 1
    /\ DOMAIN diag = {"n2"}
    /\ Len(handed[1].components) = 1

\* the payload of a component.exec node of the document gives no `component` string
LacksComponent(n, doc) ==
    LET payload == doc.nodes[n.node_id]["component.exec"] IN
    ~("component" \in DOMAIN payload.o /\ as_str(payload.o["component"]) # <<>>)

\* nothing of the run has been written: no diagnostics file, no archive, and the
\* assembler was not invoked
NothingWritten == diag = EmptyMap /\ out_file = None /\ temp_pack = None /\ handed = <<>>

\* C13: the loop never goes past a component.exec node whose payload has no
\* `component` string or whose id the document lacks; when it has stopped at such a
\* node the build has failed, with the missing-exec-payload error naming the node
\* in the first case and the missing-flow-node error naming it in the second, the
\* resolver was not invoked for the node, and no diagnostics file and no archive
\* have been written.
C13_ExecPayloadErrors ==
    \A i \in 1..Len(flow) :
        LET n == Bundle.nodes[i]
            absent == n.node_id \notin DOMAIN flow_doc_json.nodes
        IN  (n.component.name = "component.exec"
             /\ (absent \/ LacksComponent(n, flow_doc_json))) =>
                /\ i >= idx
                /\ (i = idx /\ pc = "done") =>
                     /\ result = Failed(Error(IF absent THEN "MissingFlowNode"
                                              ELSE "MissingExecPayload", n.node_id, <<>>))
                     /\ \A c \in DOMAIN resolver_calls :
                            resolver_calls[c].node_id # n.node_id
                     /\ NothingWritten

\* the build has failed at its second node, a component.exec node without
\* `component`, after the first node resolved
C13_Witness ==
    /\ pc = "done"
    /\ idx = 2
    /\ Len(flow) = 2
    /\ Len(resolved_nodes) = 1
    /\ Bundle.nodes[2].component.name = "component.exec"
    /\ "n2" \in DOMAIN flow_doc_json.nodes
    /\ LacksComponent(Bundle.nodes[2], flow_doc_json)
    /\ result.error.kind = "MissingExecPayload"

\* the ids of the resolved nodes are in the order of the flow
InFlowOrder ==
    \A j, k \in DOMAIN resolved_nodes :
        j < k => \E a, b \in 1..Len(flow) :
                    /\ a < b
                    /\ flow[a].node_id = resolved_nodes[j].node_id
                    /\ flow[b].node_id = resolved_nodes[k].node_id

\* C14: a component.exec node whose `component` string is a trimmed name, or a
\* trimmed name and a trimmed requirement around the first "@", and which the loop
\* has gone past, has an entry in the node list holding the component the resolver
\* gives for that name and requirement ("*" for a bare name) and the payload; the
\* entry is in flow order and was validated; once the configuration is normalized
\* the payload in the document holds the first declared operation under both keys
\* when it had neither, as that of an ordinary node does; once the diagnostics are
\* written its snapshot is there; and its component's artifact is among those
\* handed to the assembler. An unparsable requirement fails the build.
C14_ExecNodeLikeOrdinary ==
    \A i \in 1..Len(flow) :
        LET n == Bundle.nodes[i] IN
        (/\ n.component.name = "component.exec"
         /\ n.node_id \in DOMAIN flow_doc_json.nodes
         /\ ~LacksComponent(n, flow_doc_json)) =>
            LET payload == SourceDoc.nodes[n.node_id]["component.exec"]
                ref == parse_component_ref(as_str(payload.o["component"])[1])
            IN  /\ (~ref.ok /\ i = idx /\ pc = "done") =>
                        result = Failed(Error("InvalidVersionReq", "", <<>>))
                /\ i < idx =>
                     /\ ref.ok
                     /\ \E j \in DOMAIN resolved_nodes :
                          LET node == resolved_nodes[j]
                              rc == resolve_component(NameOf(ref.val.name), ref.val.version_req)
                              op == default_operation(node.component)
                              after == flow_doc_json.nodes[n.node_id]["component.exec"]
                          IN  /\ node.node_id = n.node_id
                              /\ rc.ok /\ node.component = rc.val
                              /\ node.config = payload
                              /\ InFlowOrder
                              /\ \E e \in DOMAIN log : log[e] = Event("checked", n.node_id)
                              /\ (/\ HasEvent("ConfigNormalized")
                                  /\ ~has_op(payload.o)
                                  /\ op.val # <<>>) =>
                                    /\ "operation" \in DOMAIN after.o
                                    /\ "op" \in DOMAIN after.o
                                    /\ after.o["operation"] = JStr(op.val[1])
                                    /\ after.o["op"] = JStr(op.val[1])
                              /\ HasEvent("DiagnosticsWritten") =>
                                    (n.node_id \in DOMAIN diag /\ diag[n.node_id] = Snapshot(node))
                              /\ HasEvent("ArtifactsCollected") =>
                                    \E a \in DOMAIN builder[1].components :
                                        builder[1].components[a] = to_artifact(node.component)

\* what resolving a node of the bundle against the document of the build gives
ResolutionIn(doc, n) ==
    IF n.component.name = "component.exec"
    THEN resolve_component_exec_node(n, doc)
    ELSE resolve_node(n, doc)

\* the position of a node id in the flow
PositionOf(id) == CHOOSE i \in 1..Len(flow) : flow[i].node_id = id

\* C15: the loop goes past a node only when the node is skipped or resolves; when
\* the run has ended with the loop stopped at a node, that node does not resolve,
\* the run's failure is the error its resolution gives, unchanged, no later node
\* was resolved or validated, nothing was normalized, and no diagnostics file and
\* no archive were written nor the assembler invoked.
C15_ResolutionFailureAborts ==
    /\ \A i \in 1..Len(flow) :
          i < idx => (Skipped(Bundle.nodes[i]) \/ ResolutionIn(flow_doc_json, Bundle.nodes[i]).ok)
    /\ (pc = "done" /\ idx <= Len(flow)) =>
          LET r == ResolutionIn(flow_doc_json, Bundle.nodes[idx]) IN
          /\ ~r.ok
          /\ result = Failed(r.err)
          /\ \A c \in DOMAIN resolver_calls : PositionOf(resolver_calls[c].node_id) <= idx
          /\ \A j \in DOMAIN resolved_nodes : PositionOf(resolved_nodes[j].node_id) < idx
          /\ \A e \in DOMAIN log :
                /\ log[e].ev \in {"FlowValidated", "resolved", "checked"}
                /\ log[e].node # "" => PositionOf(log[e].node) < idx
          /\ manifest_reads = {}
          /\ flow_doc_json \in { SourceDoc, ParseFlowDoc(SubSeq(flow, 1, Len(flow) - 1)) }
          /\ NothingWritten

\* the run has failed at the first of two nodes, whose component's manifest does
\* not parse: the resolver was invoked once and nothing was resolved
C15_Witness ==
    /\ pc = "done"
    /\ idx = 1
    /\ Len(flow) = 2
    /\ result = Failed(Error("ManifestInvalid", "broken", <<>>))
    /\ Len(resolver_calls) = 1
    /\ resolved_nodes = <<>>

\* C16: when build_once has assembled the archive, the artifacts it handed to the
\* assembler are as many as the distinct name@version keys of the resolved nodes,
\* and the diagnostics directory holds as many files as the resolved nodes have
\* distinct ids, one under each id.
C16_ArtifactAndSnapshotCounts ==
    HasEvent("Assembled") =>
        LET ids == { resolved_nodes[j].node_id : j \in DOMAIN resolved_nodes }
            keys == { ArtifactKey(resolved_nodes[j].component) : j \in DOMAIN resolved_nodes }
        IN  /\ Len(handed[Len(handed)].components) = Cardinality(keys)
            /\ Cardinality(DOMAIN diag) = Cardinality(ids)
            /\ DOMAIN diag = ids

\* the run succeeded on two nodes, an ordinary one and a component.exec one, that
\* resolve to the same component: one artifact, two diagnostics files
C16_Witness ==
    /\ result = Succeeded
    /\ Len(resolved_nodes) = 2
    /\ resolved_nodes[1].component = resolved_nodes[2].component
    /\ resolved_nodes[1].node_id # resolved_nodes[2].node_id
    /\ flow[2].comp = "component.exec"
    /\ Len(handed[1].components) = 1
    /\ Cardinality(DOMAIN diag) = 2

\* C17: when build_once has assembled the archive, the snapshot of every resolved
\* node in the diagnostics directory holds, as its configuration, the payload the
\* node has in the normalized flow document that was handed to the assembler,
\* backfilled operation included.
C17_SnapshotHoldsFinalConfig ==
    HasEvent("Assembled") =>
        \A j \in DOMAIN resolved_nodes :
            LET node == resolved_nodes[j] IN
            /\ node.node_id \in DOMAIN diag
            /\ diag[node.node_id].config =
                   DocConfig(handed[Len(handed)].flow.json, DeclOf(node.node_id))

\* C18: when a run has succeeded, the diagnostics directory holds exactly one file
\* per resolved node of that build, each the snapshot of that build's node, and so
\* no file that an earlier build left there.
C18_DirectoryHoldsLastBuildOnly ==
    (pc = "done" /\ result = Succeeded) =>
        /\ DOMAIN diag = { resolved_nodes[j].node_id : j \in DOMAIN resolved_nodes }
        /\ \A j \in DOMAIN resolved_nodes :
              diag[resolved_nodes[j].node_id] = Snapshot(resolved_nodes[j])

\* LOCAL_CHECK_STRICT is set to one of the values that turn verification on
FlagOn == strict_env \in { Some("1"), Some("true"), Some("TRUE") }

\* the primary build_once returned Ok: its archive is at the output path
PrimarySucceeded == out_file # None

\* C19: build_once is entered at most twice in a run; it is entered a second time
\* only when the flag is 1, true or TRUE and the primary build succeeded; a run that
\* has ended after its flow path was accepted has entered it exactly twice when the
\* flag is one of those values and the primary build succeeded, and exactly once
\* otherwise (a run whose flow path was rejected has not entered it at all).
C19_VerificationIsOptIn ==
    /\ build_calls <= 2
    /\ build_calls = 2 => (FlagOn /\ PrimarySucceeded)
    /\ pc = "done" =>
          IF ~normalize_run_paths(flow_path, meta_path, component_dir).ok
          THEN build_calls = 0
          ELSE build_calls = (IF FlagOn /\ PrimarySucceeded THEN 2 ELSE 1)

\* a run under LOCAL_CHECK_STRICT=true that has succeeded after two builds
C19_Witness ==
    /\ pc = "done"
    /\ strict_env = Some("true")
    /\ build_calls = 2
    /\ result = Succeeded

\* C20: of two builds that overlap in time in one working directory, every
\* snapshot file a build has written still holds what that build wrote: the other
\* build has not overwritten it, whichever way their writes interleave and even
\* when both flows have a node of the same id.
C20_BuildsOwnTheirSnapshots ==
    \A p \in DOMAIN writers :
        \A i \in 1..writers[p].k :
            LET node == writers[p].nodes[i] IN
            /\ node.node_id \in DOMAIN diag
            /\ diag[node.node_id] = Snapshot(node)

\* what the descriptor of the run gives for a field, <<>> when there is no
\* descriptor or the descriptor lacks the field
Given(field) == IF meta = None THEN None ELSE meta[1][field]

\* C21: the metadata build_once has loaded holds, for pack id, version, name and
\* entry flows, the descriptor's value when the descriptor gives one and otherwise
\* dev.local.<flow id>, 0.1.0, the flow id and the single flow id; when the
\* descriptor gives a version that is not 1.2.3 (the one valid semver string the
\* descriptors have), no metadata is loaded, the assembler is not invoked, and the
\* build that has written its diagnostics has failed with the version error.
C21_MetaDefaultsAndPrecedence ==
    /\ pack_meta # None =>
          LET m == pack_meta[1] IN
          /\ m.pack_id = (IF Given("pack_id") = None THEN <<"dev.local.", Bundle.id>>
                          ELSE Given("pack_id")[1])
          /\ m.version = (IF Given("version") = None THEN "0.1.0" ELSE Given("version")[1])
          /\ m.name = (IF Given("name") = None THEN Bundle.id ELSE Given("name")[1])
          /\ m.entry_flows = (IF Given("entry_flows") = None THEN <<Bundle.id>>
                              ELSE Given("entry_flows")[1])
    /\ (Given("version") # None /\ Given("version")[1] # "1.2.3") =>
          /\ pack_meta = None
          /\ handed = <<>>
          /\ out_file = None
          /\ (pc = "done" /\ HasEvent("DiagnosticsWritten")) =>
                result = Failed(Error("InvalidPackVersion", "", <<>>))

\* the archive was assembled with a descriptor that gives a name but no pack id,
\* version or entry flows
C21_Witness ==
    /\ handed # <<>>
    /\ meta # None
    /\ meta[1].name = Some("Acme")
    /\ meta[1].pack_id = None /\ meta[1].version = None /\ meta[1].entry_flows = None
    /\ handed[1].meta.name = "Acme"
    /\ handed[1].meta.pack_id = <<"dev.local.", "main">>
    /\ handed[1].meta.version = "0.1.0"
    /\ handed[1].meta.entry_flows = <<"main">>

\* the scheme prefixes a content hash may carry
SchemePrefixes == {"blake3:", "sha256:"}

\* the hex digest of a content hash: what follows its scheme prefixes
RECURSIVE Digest(_)
Digest(hash) ==
    IF hash # <<>> /\ Head(hash) \in SchemePrefixes THEN Digest(Tail(hash)) ELSE hash

\* C22: every artifact handed to the assembler carries, as its hash, the bare
\* digest of the content hash of a component some node of the flow resolved to:
\* no scheme prefix is in it, and a content hash without a prefix is handed over
\* as it is.
C22_ArtifactHashIsBareDigest ==
    \A k \in DOMAIN handed :
        \A a \in DOMAIN handed[k].components :
            LET art == handed[k].components[a] IN
            /\ \A t \in DOMAIN art.hash_blake3 : art.hash_blake3[t] \notin SchemePrefixes
            /\ \E c \in SearchPath :
                  /\ c.name = art.name /\ c.version = art.version
                  /\ art.hash_blake3 = Digest(c.wasm_hash)


\* the call of load_with_meta has returned
Loaded == config_load # <<>> /\ config_load.out # <<>>

\* neither an explicit override nor any of the three config variables is given
NothingForced ==
    /\ config_load.e.path_override = <<>>
    /\ \A i \in 1..3 : config_load.e.env[i] = <<>>

\* the discovery order the documentation gives: the XDG config dir (XDG_CONFIG_HOME, else
\* the platform's config dir under the home directory), then ~/.config, then ~/.greentic
DocumentedCandidates ==
    LET e == config_load.e
        xdg == IF e.xdg_config_home # <<>> THEN <<e.xdg_config_home[1] \o <<"greentic-dev", "config.toml">>>>
               ELSE IF e.home # <<>> THEN <<HomeDir \o <<".config", "greentic-dev", "config.toml">>>>
               ELSE <<>>
        homes == IF e.home # <<>>
                 THEN << HomeDir \o <<".config", "greentic-dev", "config.toml">>,
                         HomeDir \o <<".greentic", "config.toml">> >>
                 ELSE <<>>
    IN  xdg \o SelectSeq(homes, LAMBDA h : xdg = <<>> \/ h # xdg[1])

\* C23: with no explicit override and none of the config environment variables set,
\* load_with_meta loads the first existing file among the candidates in the order XDG
\* config dir, ~/.config/greentic-dev/config.toml, ~/.greentic/config.toml; candidates of
\* lower precedence are never read, so an invalid one causes no error, and every candidate
\* is listed in attempted_paths.
C23_DiscoveryLoadsFirstExisting ==
    (Loaded /\ NothingForced) =>
        LET e == config_load.e
            out == config_load.out[1]
            cands == DocumentedCandidates
            existing == { i \in DOMAIN cands : e.files[cands[i]] # "absent" }
        IN  /\ out.attempted_paths = cands
            /\ existing = {} => /\ out.ok
                                /\ out.loaded_from = <<>>
                                /\ out.config = DefaultConfig
                                /\ out.read = {}
            /\ existing # {} =>
                  LET first == cands[CHOOSE i \in existing : \A j \in existing : i <= j] IN
                  /\ out.read = {first}
                  /\ out.ok <=> e.files[first] = "valid"
                  /\ out.ok => /\ out.loaded_from = <<first>>
                               /\ out.config = ParsedConfig(first)
                  /\ ~out.ok => out.err.kind = "ConfigParseFailed" /\ out.err.node = first

\* the XDG file is valid and loaded while the invalid ~/.greentic file is only listed
C23_Witness ==
    /\ Loaded /\ NothingForced
    /\ config_load.e.files[HomeDir \o <<".greentic", "config.toml">>] = "invalid"
    /\ config_load.e.files[HomeDir \o <<".config", "greentic-dev", "config.toml">>] = "absent"
    /\ config_load.out[1].ok
    /\ config_load.out[1].loaded_from = <<XdgDir \o <<"greentic-dev", "config.toml">>>>
    /\ Len(config_load.out[1].attempted_paths) = 3
    /\ config_load.out[1].attempted_paths[3] = HomeDir \o <<".greentic", "config.toml">>

\* a `pack new-provider` command has run; Command is the record of the last one
Commanded == provider_cmd # <<>> /\ provider_cmd.last # <<>>
Command == provider_cmd.last[1]
DiskNow == [manifest |-> provider_cmd.manifest, files |-> provider_cmd.files]
ProviderTypes(providers) == { providers[i].provider_type : i \in DOMAIN providers }

\* C24: pack_new_provider for a provider id that already exists in the manifest's provider
\* extension fails when --force is not given, and the stored manifest is left exactly as it
\* was before the call.
C24_ExistingIdNeedsForce ==
    (/\ Commanded
     /\ Command.args.id \in ProviderTypes(load_provider_extension(Command.before.manifest))
     /\ ~Command.args.force)
    => /\ ~Command.ok
       /\ DiskNow = Command.before

\* an otherwise valid command for a stored id was refused for the lack of --force
C24_Witness ==
    /\ Commanded
    /\ Command.args.id \in ProviderTypes(load_provider_extension(Command.before.manifest))
    /\ ~Command.args.force /\ ~Command.args.dry_run
    /\ Command.err.kind = "ProviderExists"
    /\ provider_cmd.manifest = Command.before.manifest
    /\ provider_cmd.n = 2

IsSortedUnique(providers) ==
    \A i, j \in DOMAIN providers :
        i < j => id_rank(providers[i].provider_type) < id_rank(providers[j].provider_type)

\* the declaration the last command asked for
Declared ==
    ProviderDecl(Command.args, parse_runtime_ref(Command.args.runtime).val)

\* C25: after any sequence of successful pack_new_provider operations on a manifest, with or
\* without --force, the provider extension list holds at most one entry per provider_type
\* and is sorted by provider_type; --force on an existing id replaces that entry with the new
\* declaration instead of adding a second one, and leaves the other providers as they were.
\* A command that stored nothing (--dry-run) leaves the list as it found it, so for it the
\* list is sorted and free of duplicates when the manifest it started from was.
C25_ProvidersSortedAndUnique ==
    (Commanded /\ Command.ok) =>
        LET stored == load_provider_extension(provider_cmd.manifest)
            prior == load_provider_extension(Command.before.manifest)
            id == Command.args.id
        IN  /\ (~Command.args.dry_run
                 \/ IsSortedUnique(load_provider_extension(provider_cmd.initial)))
               => IsSortedUnique(stored)
            /\ ~Command.args.dry_run =>
                 /\ Len(SelectSeq(stored, LAMBDA q : q.provider_type = id)) = 1
                 /\ \E i \in DOMAIN stored : stored[i] = Declared
                 /\ { stored[i] : i \in { k \in DOMAIN stored : stored[k].provider_type # id } }
                    = { prior[i] : i \in { k \in DOMAIN prior : prior[k].provider_type # id } }
                 /\ id \in ProviderTypes(prior) => Len(stored) = Len(prior)
                 /\ id \notin ProviderTypes(prior) => Len(stored) = Len(prior) + 1

\* a second command replaced, with --force, the entry of a stored id by another declaration
\* while a second provider stayed in the list
C25_Witness ==
    /\ Commanded /\ Command.ok
    /\ Command.args.force /\ ~Command.args.dry_run
    /\ provider_cmd.n = 2
    /\ LET stored == load_provider_extension(provider_cmd.manifest)
           prior == load_provider_extension(Command.before.manifest)
       IN  /\ Len(stored) = 2 /\ Len(prior) = 2
           /\ stored[1].provider_type = "a" /\ stored[2].provider_type = "b"
           /\ Command.args.id = "a"
           /\ stored[1] # prior[1]
           /\ stored[2] = prior[2]

\* C26: pack_new_provider with --dry-run modifies nothing on disk, whether it succeeds or
\* not: the manifest is the same before and after the call and no provider manifest file is
\* scaffolded, even when --scaffold-files is also given; it succeeds exactly when the same
\* command without --dry-run would.
C26_DryRunWritesNothing ==
    (Commanded /\ Command.args.dry_run) =>
        /\ DiskNow = Command.before
        /\ Command.ok
           = pack_new_provider(Command.before, [Command.args EXCEPT !.dry_run = FALSE]).ok

\* a dry run with --scaffold-files succeeded on a manifest without the id and left the
\* manifest and the files alone
C26_Witness ==
    /\ Commanded /\ Command.ok
    /\ Command.args.dry_run /\ Command.args.scaffold_files
    /\ Command.args.id \notin ProviderTypes(load_provider_extension(provider_cmd.manifest))
    /\ provider_cmd.manifest = Command.before.manifest
    /\ \A r \in RefPaths : provider_cmd.files[r] = <<>>

\* the call of normalize_under_root has returned
Normalized == path_check # <<>> /\ path_check.out # <<>>

\* where the candidate leads: itself when absolute, otherwise joined to the root
LeadsTo == canonicalize(IF path_check.candidate.abs THEN path_check.candidate.segs
                        ELSE path_check.root \o path_check.candidate.segs)

\* C27: normalize_under_root rejects every absolute candidate path and every candidate that
\* escapes the root via `..`; whenever it returns Ok, the returned canonical path lies under
\* the root.
C27_RejectsAbsoluteAndEscaping ==
    Normalized =>
        LET out == path_check.out[1] IN
        /\ path_check.candidate.abs => ~out.ok
        /\ ~starts_with(LeadsTo, path_check.root) => ~out.ok
        /\ out.ok => starts_with(out.val, path_check.root)

\* the manifest has no `operations` array, an empty one, or a first entry whose `name` is
\* not a string
YieldsNoDefault(component) ==
    LET manifest == component.manifest_json IN
    \/ ~manifest.hasOps
    \/ manifest.operations = <<>>
    \/ as_str(manifest.operations[1]) = <<>>

\* C28: when the resolved component's manifest yields no default operation (no `operations`
\* array, an empty array, or a first entry without a string `name`), ensure_node_operations
\* leaves the node's configuration without `operation`/`op` where it had none, changes
\* nothing else in the flow document (the node's entry is as the source had it, and so is
\* the whole document when no node has a default to receive), and returns Ok.
C28_NoDefaultLeavesNodeAlone ==
    (pc = "apply" /\ idx >= 1) =>
        /\ \A i \in 1..Len(flow) :
             (YieldsNoDefault(resolved_nodes[i].component) /\ ~has_op(flow[i].cfg.o)) =>
                /\ flow_doc_json.nodes[flow[i].node_id] = SourceDoc.nodes[flow[i].node_id]
                /\ \A k \in {"operation", "op"} :
                      k \in DOMAIN DocConfig(flow_doc_json, flow[i]).o => k \in DOMAIN flow[i].cfg.o
        /\ (\A i \in 1..Len(flow) :
                YieldsNoDefault(resolved_nodes[i].component) \/ has_op(flow[i].cfg.o))
           => flow_doc_json = SourceDoc
        /\ (\E i \in 1..Len(flow) : YieldsNoDefault(resolved_nodes[i].component))
           => ensure_node_operations(SourceDoc, resolved_nodes).ok

\* a node of a component whose first operation has no name is as the source had it, beside
\* a node of echo that received the default
C28_Witness ==
    /\ pc = "apply" /\ idx = 1
    /\ Len(flow) = 2
    /\ flow[1].comp = "anon" /\ flow[1].cfg.o = ("text" :> JStr("hi"))
    /\ flow_doc_json.nodes["n1"] = SourceDoc.nodes["n1"]
    /\ flow[2].comp = "echo"
    /\ flow_doc_json.nodes["n2"] # SourceDoc.nodes["n2"]

\* the verification build has succeeded and its archive is byte for byte the primary one
IdenticalArchives ==
    /\ pc = "compare"
    /\ out_file # None
    /\ temp_pack = out_file

\* C29: in strict mode the determinism check reads the primary archive from the place where
\* the primary build wrote it, so run succeeds whenever both builds succeed and their
\* archives are byte-identical, for every output path the primary build accepted, inside or
\* outside the working directory.
C29_VerificationReadsPrimaryArchive ==
    [][IdenticalArchives => result' = Succeeded]_vars

\* the primary build_once has returned an error
PrimaryFailed == build = 1 /\ pc = "done" /\ result.status = "failed"

\* C30: a build that fails during node resolution or at the schema check has produced no
\* filesystem side effect: diagnostics files are written only after every node has resolved
\* and the aggregated schema error list is empty, the parent directory of the output path
\* is created only after the diagnostics were written and the metadata loaded, and a build
\* that fails in metadata loading or assembly may leave the diagnostics files but never an
\* archive; the archive of a build is there only once its assembly has succeeded.
C30_FailedBuildLeavesNoArchive ==
    /\ build = 1 =>
          /\ diag # EmptyMap =>
                /\ HasEvent("DiagnosticsWritten")
                /\ HasEvent("SchemaChecked")
                /\ idx > Len(flow) /\ AllResolve
                /\ schema_errors = <<>> /\ ViolationsFrom(1) = <<>>
          /\ out_parent => (HasEvent("DiagnosticsWritten") /\ HasEvent("MetaLoaded"))
          /\ out_file # None => HasEvent("Assembled")
    /\ (PrimaryFailed /\ ~HasEvent("SchemaChecked")) =>
          (diag = EmptyMap /\ ~out_parent /\ out_file = None /\ handed = <<>>)
    /\ PrimaryFailed => out_file = None
    /\ (build = 2 /\ temp_pack # None) => (pc = "compare" /\ HasEvent("Assembled"))

\* a build whose metadata did not load: the diagnostics files are there, the parent
\* directory and the archive are not
C30_Witness ==
    /\ PrimaryFailed
    /\ HasEvent("DiagnosticsWritten") /\ ~HasEvent("MetaLoaded")
    /\ diag # EmptyMap
    /\ ~out_parent
    /\ out_file = None
====
